---- MODULE Spec2Model ----
(***************************************************************************)
(* Token lifecycle, fan-out delivery and scheduled jobs of the calendar    *)
(* summary agent.                                                          *)
(*   src/encryption.py  encrypt_token, decrypt_token                       *)
(*   src/database.py    Token, save_token, get_user_tokens,                *)
(*                      is_token_expired, log_email_sent, ScheduledJob,    *)
(*                      create_scheduled_job, update_job_status,           *)
(*                      cancel_scheduled_job                               *)
(*   src/utils.py       refresh_access_token, get_valid_token              *)
(*   src/agent.py       fetch_user_calendar_events, generate_ai_summary,   *)
(*                      send_email, send_email_to_users                    *)
(*   src/functions.py   schedule_email_job, cancel_job,                    *)
(*                      clear_completed_jobs                               *)
(*   src/main.py        callback, api_schedule_email, api_cancel_job,      *)
(*                      api_clear_completed_jobs                           *)
(***************************************************************************)
EXTENDS Integers, Sequences, FiniteSets, TLC

VARIABLES
    now,      \* datetime.utcnow(), in seconds
    users,    \* table users: rows in primary-key order
    tokens,   \* table tokens: rows in insertion order
    logs,     \* table email_logs: rows in insertion order
    call,     \* the call of get_valid_token api_test_token just made, if any
    run,      \* the send_email_to_users call in progress, with its history
    jobs,     \* table scheduled_jobs: rows in insertion order
    triggers, \* the scheduler's job store: the registered date triggers
    running,  \* the send_scheduled_emails callback in progress, if any
    fired,    \* history: the job ids whose callback called the fan-out
    reply,    \* the reply the scheduling endpoint called last just gave
    resolved, \* the recipients send_email_to_users just resolved, if any
    rendering, \* the call of a rendering function under study, if any
    saving,   \* the calls of save_token that run step by step, if any
    env,      \* the process environment: ADMIN_EMAILS
    login,    \* the call of get_or_create_user the callback just made, if any
    scheduling \* the schedule requests that run step by step, if any

vars ==
    <<now, users, tokens, logs, call, run,
      jobs, triggers, running, fired, reply, resolved, rendering, saving,
      env, login, scheduling>>

----------------------------------------------------------------------------
(* Bounds of the model *)

\* the clock runs from 0 to MaxTime
MaxTime == 2
\* the provider reports lifetimes 0..MaxLifetime (or none: the default applies)
MaxLifetime == 1
\* schedule requests name the local time MaxRunDate, in one of two zones
MaxRunDate == 1

\* Python's None
None == "None"

\* expires_in when the provider's response carries none
DefaultExpiresIn == 3600
\* fetch_days when a user row carries none
DefaultFetchDays == 7

\* an expires_in value: a number of seconds, JSON null, or no such key
Seconds(n) == [tag |-> "int", n |-> n]
NullSeconds == [tag |-> "null", n |-> 0]
AbsentSeconds == [tag |-> "absent", n |-> 0]

\* Python truthiness of a string-or-None value
Falsy(x) == x = None \/ x = ""

----------------------------------------------------------------------------
(* src/encryption.py *)

\* ciphertexts are <<"enc", plaintext>>; <<>> is None / SQL NULL
encrypt_token(token_string) ==
    IF Falsy(token_string) THEN <<>> ELSE <<"enc", token_string>>

decrypt_token(encrypted_token) ==
    IF encrypted_token = <<>> THEN None ELSE encrypted_token[2]

----------------------------------------------------------------------------
(* src/database.py: the tokens table *)

\* index of the first row of user_id, 0 when there is none:
\* Token.query.filter_by(user_id=user_id).first()
TokenIndex(tbl, user_id) ==
    LET hits == {i \in 1..Len(tbl) : tbl[i].user_id = user_id}
    IN  IF hits = {} THEN 0 ELSE CHOOSE i \in hits : \A j \in hits : i <= j

\* mutant of RowCommits: the column accepts NULL
RowCommitsNullable(row) == TRUE

\* the commit of a row fails on access_token NULL (nullable=False)
RowCommits(row) == row.access_token # <<>>

\* mutant of ExpiresAt: the lifetime is stored, not the instant it ends at
ExpiresAtLifetimeOnly(t, expires_in) == expires_in.n

\* line 112: datetime.utcnow() + timedelta(seconds=expires_in)
ExpiresAt(t, expires_in) == t + expires_in.n

\* save_token after its query, database.py lines 112-131, with i the row
\* the query found (0: none): [raised, tbl]. A failed commit rolls the
\* session back.
commit_token(tbl, i, user_id, access_token, refresh_token, expires_in, t) ==
    IF expires_in.tag # "int"
    THEN [raised |-> TRUE, tbl |-> tbl]      \* timedelta(seconds=None)
    ELSE
    LET expires_at == ExpiresAt(t, expires_in)
        updated == [tbl[i] EXCEPT
                      !.access_token = encrypt_token(access_token),
                      !.refresh_token =
                          IF ~Falsy(refresh_token)
                          THEN encrypt_token(refresh_token) ELSE @,
                      !.expires_at = expires_at,
                      !.updated_at = t]
        created == [user_id |-> user_id,
                    access_token |-> encrypt_token(access_token),
                    refresh_token |-> IF ~Falsy(refresh_token)
                                      THEN encrypt_token(refresh_token)
                                      ELSE <<>>,
                    expires_at |-> expires_at,
                    updated_at |-> t]
    IN  IF i # 0
        THEN IF RowCommits(updated)
             THEN [raised |-> FALSE, tbl |-> [tbl EXCEPT ![i] = updated]]
             ELSE [raised |-> TRUE, tbl |-> tbl]
        ELSE IF RowCommits(created)
             THEN [raised |-> FALSE, tbl |-> Append(tbl, created)]
             ELSE [raised |-> TRUE, tbl |-> tbl]

\* save_token, database.py lines 110-131, as one step: the query of line
\* 111 and what follows it
save_token(tbl, user_id, access_token, refresh_token, expires_in, t) ==
    commit_token(tbl, TokenIndex(tbl, user_id), user_id, access_token,
                 refresh_token, expires_in, t)

\* get_user_tokens: <<>> for None, else <<dict>>
get_user_tokens(tbl, user_id) ==
    LET i == TokenIndex(tbl, user_id)
    IN  IF i = 0 THEN <<>>
        ELSE <<[access_token |-> decrypt_token(tbl[i].access_token),
                refresh_token |-> IF tbl[i].refresh_token # <<>>
                                  THEN decrypt_token(tbl[i].refresh_token)
                                  ELSE None,
                expires_at |-> tbl[i].expires_at]>>

\* mutant of is_token_expired: the comparison is turned round
is_token_expired_inverted(tbl, user_id, t) ==
    LET i == TokenIndex(tbl, user_id)
    IN  IF i = 0 THEN TRUE ELSE t < tbl[i].expires_at

is_token_expired(tbl, user_id, t) ==
    LET i == TokenIndex(tbl, user_id)
    IN  IF i = 0 THEN TRUE ELSE t > tbl[i].expires_at

----------------------------------------------------------------------------
(* src/utils.py *)

\* what the token endpoint can answer to one exchange request
NoResponse == [kind |-> "none", access_token |-> None,
               refresh_token |-> None, expires_in |-> AbsentSeconds]

TokenResponse(kind, access_token, refresh_token, expires_in) ==
    [kind |-> kind, access_token |-> access_token,
     refresh_token |-> refresh_token, expires_in |-> expires_in]

\* "exception": requests.post or response.json() raises; "non200": another
\* status; "ok": status 200 with a JSON object, which may lack access_token,
\* may carry a rotated refresh_token, and reports a lifetime or none
TokenResponses ==
    {TokenResponse("exception", None, None, AbsentSeconds),
     TokenResponse("non200", None, None, AbsentSeconds),
     TokenResponse("ok", None, None, Seconds(MaxLifetime)),
     TokenResponse("ok", "a1", None, NullSeconds),
     TokenResponse("ok", "a1", None, AbsentSeconds),
     TokenResponse("ok", "a1", "r1", Seconds(MaxLifetime))}
    \cup {TokenResponse("ok", "a1", None, Seconds(n)) : n \in 0..MaxLifetime}

\* mutant of refresh_access_token: the exchange is requested without looking
\* for a stored refresh token, and nothing is saved
refresh_access_token_unguarded(tbl, user_id, t, resp) ==
    [ret |-> <<>>, tbl |-> tbl, requests |-> 1]

\* mutant of refresh_access_token: the new access token is returned and
\* not saved
refresh_access_token_unsaved(tbl, user_id, t, resp) ==
    [ret |-> <<[access_token |-> resp.access_token,
                refresh_token |-> resp.refresh_token,
                expires_in |-> resp.expires_in]>>,
     tbl |-> tbl, requests |-> 1]

\* refresh_access_token: [ret, tbl, requests]; ret is <<>> for None
refresh_access_token(tbl, user_id, t, resp) ==
    LET token_data == get_user_tokens(tbl, user_id)
    IN  IF token_data = <<>> \/ Falsy(token_data[1].refresh_token)
        THEN [ret |-> <<>>, tbl |-> tbl, requests |-> 0]
        ELSE
        LET refresh_token == token_data[1].refresh_token
            expires_in == IF resp.expires_in.tag = "absent"
                          THEN Seconds(DefaultExpiresIn)
                          ELSE resp.expires_in
            saved == save_token(tbl, user_id, resp.access_token,
                                refresh_token, expires_in, t)
        IN  IF resp.kind # "ok"
            THEN [ret |-> <<>>, tbl |-> tbl, requests |-> 1]
            ELSE IF saved.raised
            THEN [ret |-> <<>>, tbl |-> saved.tbl, requests |-> 1]
            ELSE [ret |-> <<[access_token |-> resp.access_token,
                             refresh_token |-> refresh_token,
                             expires_in |-> expires_in]>>,
                  tbl |-> saved.tbl, requests |-> 1]

\* get_valid_token: [ret, tbl, requests]
get_valid_token(tbl, user_id, t, resp) ==
    IF is_token_expired(tbl, user_id, t)
    THEN refresh_access_token(tbl, user_id, t, resp)
    ELSE [ret |-> get_user_tokens(tbl, user_id), tbl |-> tbl, requests |-> 0]

\* the record of one call of get_valid_token
CallRecord(tbl, user_id, t, resp) ==
    LET g == get_valid_token(tbl, user_id, t, resp)
    IN  [user_id |-> user_id, at |-> t, pre |-> tbl, post |-> g.tbl,
         ret |-> g.ret, requests |-> g.requests,
         resp |-> IF g.requests = 0 THEN NoResponse ELSE resp]

NoCall == [user_id |-> 0, at |-> 0, pre |-> <<>>, post |-> <<>>,
           ret |-> <<>>, requests |-> 0, resp |-> NoResponse]

----------------------------------------------------------------------------
(* src/database.py: users and email_logs *)

\* User.query.get(user_id): <<>> for None, else <<row>>
get_user_by_id(tbl, user_id) ==
    SelectSeq(tbl, LAMBDA u : u.id = user_id)

\* an email address or an entry of ADMIN_EMAILS: its letters, whether some
\* are upper case, and whether blanks surround it
Text(name, upper, padded) == [name |-> name, upper |-> upper, padded |-> padded]

\* str.strip()
Strip(s) == [s EXCEPT !.padded = FALSE]

\* mutant of Lower: the case is kept
LowerKeepsCase(s) == s

\* str.lower()
Lower(s) == [s EXCEPT !.upper = FALSE]

\* get_admin_emails, database.py lines 81-85, for the entries that
\* ADMIN_EMAILS.split(',') gives (none when the variable is empty or unset)
get_admin_emails(entries) ==
    {Lower(Strip(entries[i])) : i \in 1..Len(entries)}

\* the first row of the email in users, 0 when there is none: the filter
\* compares the column with the argument as it is
UserIndex(tbl, email) ==
    LET hits == {i \in 1..Len(tbl) : tbl[i].email = email}
    IN  IF hits = {} THEN 0 ELSE CHOOSE i \in hits : \A j \in hits : i <= j

\* get_or_create_user, database.py lines 88-107, at time t: [user_id, tbl]
get_or_create_user(tbl, entries, email, name, t) ==
    LET i == UserIndex(tbl, email)
        role == IF Lower(email) \in get_admin_emails(entries)
                THEN "admin" ELSE "user"
    IN  IF i = 0
        THEN [user_id |-> Len(tbl) + 1,
              tbl |-> Append(tbl, [id |-> Len(tbl) + 1, email |-> email,
                                   name |-> name, role |-> role,
                                   fetch_days |-> DefaultFetchDays,
                                   created_at |-> t])]
        ELSE [user_id |-> tbl[i].id,
              tbl |-> IF tbl[i].role # role
                      THEN [tbl EXCEPT ![i].role = role] ELSE tbl]

\* mutant of log_email_sent: the newest row is overwritten
log_email_sent_overwrites(tbl, row) ==
    IF tbl = <<>> THEN <<row>> ELSE [tbl EXCEPT ![Len(tbl)] = row]

\* mutant of log_email_sent: the insert fails and the error is swallowed
log_email_sent_lost(tbl, row) == tbl

\* log_email_sent: one row appended to email_logs and committed
log_email_sent(tbl, row) == Append(tbl, row)

LogRow(user, subject, status, error_message, events_count, fetch_days) ==
    [user_id |-> user.id, user_name |-> user.name, subject |-> subject,
     status |-> status, error_message |-> error_message,
     events_count |-> events_count, fetch_days |-> fetch_days]

----------------------------------------------------------------------------
(* src/agent.py: fetch, render, send *)

\* str values the code reads character by character are sequences of
\* one-character strings; a name strftime writes (a weekday, a month) is one
\* element, as it holds neither a blank nor a digit

\* strftime('%d'), ('%I'), ('%M'): two decimal digits
Digits(n) == <<ToString(n \div 10), ToString(n % 10)>>

\* str.lstrip(c)
RECURSIVE lstrip(_, _)
lstrip(s, c) ==
    IF s # <<>> /\ Head(s) = c THEN lstrip(Tail(s), c) ELSE s

\* str.replace(old, new): every occurrence, from the left, not overlapping
RECURSIVE replace(_, _, _)
replace(s, old, new) ==
    IF Len(s) < Len(old) THEN s
    ELSE IF SubSeq(s, 1, Len(old)) = old
    THEN new \o replace(SubSeq(s, Len(old) + 1, Len(s)), old, new)
    ELSE <<Head(s)>> \o replace(Tail(s), old, new)

\* the value of event['start']['dateTime'] or ['date']: an ISO date-time
\* "2025-11-ddThh:mm:00Z", an ISO date "2025-11-dd", a text fromisoformat
\* rejects (with or without a 'T' in it), or None
IsoDateTime(day, hour, minute) ==
    [tag |-> "datetime", day |-> day, hour |-> hour, minute |-> minute,
     hasT |-> TRUE]
IsoDate(day) ==
    [tag |-> "date", day |-> day, hour |-> 0, minute |-> 0, hasT |-> FALSE]
Unparsable(hasT) ==
    [tag |-> "text", day |-> 0, hour |-> 0, minute |-> 0, hasT |-> hasT]
NoneStart ==
    [tag |-> "none", day |-> 0, hour |-> 0, minute |-> 0, hasT |-> FALSE]

\* what a format function returns: the text it rendered, or its argument
Label(chars) == [tag |-> "label", chars |-> chars, value |-> <<>>]
Unchanged(time_str) == [tag |-> "input", chars |-> <<>>, value |-> <<time_str>>]

\* strftime('%A') for a day of November 2025, whose first day is a Saturday
Weekdays ==
    <<"Saturday", "Sunday", "Monday", "Tuesday", "Wednesday", "Thursday",
      "Friday">>
WeekdayName(day) == Weekdays[((day - 1) % 7) + 1]

\* strftime('%I') and ('%p')
Hour12(hour) == IF hour % 12 = 0 THEN 12 ELSE hour % 12
Meridiem(hour) == IF hour < 12 THEN <<"A", "M">> ELSE <<"P", "M">>

\* strftime('%I:%M %p')
ClockChars(hour, minute) ==
    Digits(Hour12(hour)) \o <<":">> \o Digits(minute) \o <<" ">>
        \o Meridiem(hour)

AllDay == <<"A", "l", "l", " ", "D", "a", "y">>

\* agent.py lines 49-57. 'T' in None raises TypeError, fromisoformat raises
\* ValueError for a text; the bare except returns the argument
format_time_12hr(time_str) ==
    IF time_str.tag = "none" THEN Unchanged(time_str)
    ELSE IF time_str.hasT
    THEN IF time_str.tag = "datetime"
         THEN Label(lstrip(ClockChars(time_str.hour, time_str.minute), "0"))
         ELSE Unchanged(time_str)
    ELSE Label(AllDay)

\* agent.py lines 59-67: strftime('%A, %B %d, %Y')
format_date_friendly(time_str) ==
    IF time_str.tag \in {"datetime", "date"}
    THEN Label(<<WeekdayName(time_str.day), ",", " ", "November", " ">>
               \o Digits(time_str.day) \o <<",", " ", "2025">>)
    ELSE Unchanged(time_str)

\* agent.py lines 70-79: strftime('%A, %b %d at %I:%M %p').replace(' 0', ' ')
\* and strftime('%A, %b %d (All Day)')
format_datetime_full(time_str) ==
    IF time_str.tag = "none" THEN Unchanged(time_str)
    ELSE IF time_str.hasT
    THEN IF time_str.tag = "datetime"
         THEN Label(replace(<<WeekdayName(time_str.day), ",", " ", "Nov", " ">>
                            \o Digits(time_str.day) \o <<" ", "a", "t", " ">>
                            \o ClockChars(time_str.hour, time_str.minute),
                            <<" ", "0">>, <<" ">>))
         ELSE Unchanged(time_str)
    ELSE IF time_str.tag = "date"
    THEN Label(<<WeekdayName(time_str.day), ",", " ", "Nov", " ">>
               \o Digits(time_str.day) \o <<" ", "(">> \o AllDay \o <<")">>)
    ELSE Unchanged(time_str)

\* a calendar event: start is what the key 'start' holds ("absent": the
\* event has no such key; "neither": a dict with neither dateTime nor
\* date); summary and location are <<>> for a missing key
StartField(key, value) == [key |-> key, value |-> value]
Event(start, summary, location) ==
    [start |-> start, summary |-> summary, location |-> location]

\* an event of the calendar with a time, and an all-day event without a
\* location
TimedEvent ==
    Event(StartField("dateTime", IsoDateTime(1, 9, 5)), <<"standup">>,
          <<"room 1">>)
AllDayEvent == Event(StartField("date", IsoDate(2)), <<"offsite">>, <<>>)
\* an event without the key 'start'
StartlessEvent == Event(StartField("absent", NoneStart), <<"draft">>, <<>>)

EventLists ==
    {<<>>, <<TimedEvent>>, <<AllDayEvent, StartlessEvent>>}

\* what the calendar endpoint can answer to one request
CalendarResponses ==
    {[kind |-> k, items |-> <<>>] : k \in {"exception", "non200"}}
    \cup [kind : {"ok"}, items : EventLists]

\* fetch_user_calendar_events: [events, call]; events is <<>> for None,
\* else <<list>>. Every exception is caught inside and gives None.
fetch_user_calendar_events(tbl, user_id, t, resp, api) ==
    LET c == CallRecord(tbl, user_id, t, resp)
    IN  [events |-> IF c.ret = <<>> \/ api.kind # "ok"
                    THEN <<>> ELSE <<api.items>>,
         call |-> c]

\* event['start'] raises KeyError for an event without the key
HasStart(event) == event.start.key # "absent"

\* event['start'].get('dateTime', event['start'].get('date'))
StartOf(event) ==
    IF event.start.key \in {"dateTime", "date"} THEN event.start.value
    ELSE NoneStart

\* event.get(key, default)
GetOr(field, default) == IF field = <<>> THEN default ELSE field[1]

\* the seconds of a day of the clock
DayLength == 2

\* mutant of UtcDate: the header carries the time of day
UtcDateAndTime(t) == t

\* strftime('%A, %B %d, %Y') of datetime.now(pytz.UTC), agent.py line 222
UtcDate(t) == t \div DayLength

\* agent.py lines 224-229
PeriodText(fetch_days_ahead) ==
    IF fetch_days_ahead = 1 THEN "Today"
    ELSE IF fetch_days_ahead = 7 THEN "This Week"
    ELSE "Next " \o ToString(fetch_days_ahead) \o " Days"

\* what a raised exception leaves in place of a document
NoDocument ==
    [raised |-> TRUE, variant |-> "none", period_text |-> "",
     current_date |-> 0, user_name |-> <<>>, fetch_days |-> 0, count |-> 0,
     entries |-> <<>>, body |-> None]

\* agent.py lines 248-267: one entry for each event, in the order of the
\* list
FallbackEntries(events) ==
    [i \in 1..Len(events) |->
        [when |-> format_datetime_full(StartOf(events[i])),
         summary |-> GetOr(events[i].summary, "Untitled Event"),
         location |-> GetOr(events[i].location, "")]]

\* create_professional_email, agent.py lines 220-321, called at time t: the
\* parts of the document that vary. The heading names the user in the
\* fallback body only.
create_professional_email(user_name, events, fetch_days_ahead, ai_content, is_empty, t) ==
    LET page == [NoDocument EXCEPT
                   !.raised = FALSE,
                   !.period_text = PeriodText(fetch_days_ahead),
                   !.current_date = UtcDate(t)]
    IN  IF is_empty
        THEN [page EXCEPT !.variant = "empty",
                          !.fetch_days = fetch_days_ahead]
        ELSE IF ~Falsy(ai_content)
        THEN [page EXCEPT !.variant = "ai", !.body = ai_content]
        ELSE IF \E i \in 1..Len(events) : ~HasStart(events[i])
        THEN NoDocument
        ELSE [page EXCEPT !.variant = "fallback",
                          !.user_name = user_name,
                          !.fetch_days = fetch_days_ahead,
                          !.count = Len(events),
                          !.entries = FallbackEntries(events)]

\* the generative backend: no model configured, or what generate_content does
Backends == {"absent", "raises", "empty", "text"}

\* agent.py lines 151-168: the events as the prompt lists them
PromptEntries(events) ==
    [i \in 1..Len(events) |->
        [date |-> format_date_friendly(StartOf(events[i])),
         time |-> format_time_12hr(StartOf(events[i])),
         summary |-> GetOr(events[i].summary, "Untitled Event"),
         location |-> GetOr(events[i].location, "No location")]]

\* mutant of BackendCalled: the backend is asked for an empty list as well
BackendCalledAlways(events, backend) == backend # "absent"

\* agent.py lines 142-201: generate_content is reached when there are
\* events, a model is configured and the prompt was built
BackendCalled(events, backend) ==
    /\ events # <<>>
    /\ backend # "absent"
    /\ \A i \in 1..Len(events) : HasStart(events[i])

\* agent.py lines 201-207: the text of the backend that becomes the body,
\* None when line 203 or the handler of line 214 takes the fallback
BackendText(events, backend) ==
    IF BackendCalled(events, backend) /\ backend = "text"
    THEN "text" ELSE None

\* generate_ai_summary, agent.py lines 136-217, called at time t:
\* [raised, doc, calls, prompt]; calls counts the calls of generate_content,
\* prompt is <<>> or the events of the prompt it was given
generate_ai_summary(events, user_name, fetch_days_ahead, backend, t) ==
    LET called == BackendCalled(events, backend)
        doc == IF events = <<>>
               THEN create_professional_email(user_name, <<>>,
                        fetch_days_ahead, None, TRUE, t)
               ELSE create_professional_email(user_name, events,
                        fetch_days_ahead, BackendText(events, backend),
                        FALSE, t)
    IN  [raised |-> doc.raised, doc |-> doc,
         calls |-> IF called THEN 1 ELSE 0,
         prompt |-> IF called THEN <<PromptEntries(events)>> ELSE <<>>]

\* what the mail endpoint can do with one request
MailResponses ==
    {"200", "403", "other", "timeout", "request_exception", "exception"}

MailError(mail) ==
    CASE mail = "200" -> None
      [] mail = "403" -> "Insufficient authentication scopes"
      [] mail = "other" -> "Gmail API error"
      [] mail = "timeout" -> "Gmail API request timeout (30s)"
      [] mail = "request_exception" -> "Request failed"
      [] OTHER -> "Unexpected error"

\* mutant of send_email: a 403 answer is followed by a second attempt
send_email_retries(tbl, user, subject, t, events_count, fetch_days, resp, mail) ==
    LET c == CallRecord(tbl, user.id, t, resp)
    IN  IF c.ret = <<>> \/ Falsy(c.ret[1].access_token)
        THEN [sent |-> FALSE, requests |-> 0, call |-> c,
              row |-> LogRow(user, subject, "failed", "No valid OAuth token",
                             events_count, fetch_days)]
        ELSE [sent |-> mail = "200",
              requests |-> IF mail = "exception" THEN 0
                           ELSE IF mail = "403" THEN 2 ELSE 1,
              call |-> c,
              row |-> LogRow(user, subject,
                             IF mail = "200" THEN "success" ELSE "failed",
                             MailError(mail), events_count, fetch_days)]

\* send_email: [sent, requests, row, call]; requests counts the messages
\* submitted to the mail endpoint, row is the one row it logs
send_email(tbl, user, subject, t, events_count, fetch_days, resp, mail) ==
    LET c == CallRecord(tbl, user.id, t, resp)
    IN  IF c.ret = <<>> \/ Falsy(c.ret[1].access_token)
        THEN [sent |-> FALSE, requests |-> 0, call |-> c,
              row |-> LogRow(user, subject, "failed", "No valid OAuth token",
                             events_count, fetch_days)]
        ELSE [sent |-> mail = "200",
              requests |-> IF mail = "exception" THEN 0 ELSE 1,
              call |-> c,
              row |-> LogRow(user, subject,
                             IF mail = "200" THEN "success" ELSE "failed",
                             MailError(mail), events_count, fetch_days)]

\* no rendering function is under study, and no save_token runs step by
\* step: every call of the actions below is one step
NoRendering == [op |-> "none"]
NoSaving == <<>>

\* ADMIN_EMAILS is not set; the callback has not called get_or_create_user;
\* no schedule request runs step by step
UnsetEnv == [ADMIN_EMAILS |-> <<>>]
NoLogin ==
    [made |-> FALSE, email |-> Text("", FALSE, FALSE), entries |-> <<>>,
     user_id |-> 0, role_before |-> <<>>]
\* a schedule request between its add_job and its insert: <<>> when there
\* is none, or one record of what the handler holds
NoScheduling == <<>>

----------------------------------------------------------------------------
(* src/database.py: table scheduled_jobs; the scheduler's job store *)

\* functions.py line 197: the upper end of the window check
MaxFetchDays == 365

\* the admin of InitUsers, whose session the scheduling endpoints run in
Admins == {1}

\* a request's fetch_days: an integer, a text int() rejects, or no value
Days(n) == [tag |-> "int", n |-> n]
NotANumber == [tag |-> "text", n |-> 0]
NoDays == [tag |-> "none", n |-> 0]

\* int(fetch_days), functions.py line 196: ValueError or TypeError is raised
\* for a text or None
IntOf(x) == [raised |-> x.tag # "int", n |-> x.n]

\* a request's datetime: a local wall-clock time, a text strptime rejects,
\* or the empty string
LocalTime(t) == [tag |-> "local", t |-> t]
BadTime == [tag |-> "bad", t |-> 0]
EmptyTime == [tag |-> "empty", t |-> 0]

\* main.py line 46: the default of the environment variable
USER_TIMEZONE == "UTC"

\* pytz: the time zones of the model and their offsets from UTC
Timezones == {"UTC", "Etc/GMT-1"}
UtcOffset(tz) == IF tz = "UTC" THEN 0 ELSE 1

\* functions.py lines 203-206, main.py lines 347-350: strptime, localize,
\* astimezone(UTC)
ToUtc(datetime_str, tz) ==
    [raised |-> datetime_str.tag # "local",
     t |-> datetime_str.t - UtcOffset(tz)]

\* mutant of NotLater: a fire time equal to the current time passes
NotLaterStrict(scheduled_dt_utc, t) == scheduled_dt_utc < t

\* functions.py line 208, main.py line 353: the test that refuses a fire
\* time that is not in the future
NotLater(scheduled_dt_utc, t) == scheduled_dt_utc <= t

\* functions.py line 211, main.py line 360
JobId(timestamp, created_by) ==
    "scheduled_" \o ToString(timestamp) \o "_" \o ToString(created_by)

\* database.py line 168: ','.join(map(str, user_ids))
RECURSIVE JoinIds(_)
JoinIds(user_ids) ==
    IF user_ids = <<>> THEN ""
    ELSE IF Len(user_ids) = 1 THEN ToString(user_ids[1])
    ELSE ToString(user_ids[1]) \o "," \o JoinIds(Tail(user_ids))

\* the first row of job_id in scheduled_jobs, 0 when there is none
JobIndex(tbl, job_id) ==
    IF \E i \in 1..Len(tbl) : tbl[i].job_id = job_id
    THEN CHOOSE i \in 1..Len(tbl) :
            /\ tbl[i].job_id = job_id
            /\ \A j \in 1..(i - 1) : tbl[j].job_id # job_id
    ELSE 0

\* database.py lines 164-174. job_id is unique: the commit of a second row
\* of the same job_id raises IntegrityError and nothing is stored.
create_scheduled_job(tbl, job_id, scheduled_time, user_ids, created_by) ==
    IF JobIndex(tbl, job_id) # 0
    THEN [raised |-> TRUE, tbl |-> tbl]
    ELSE [raised |-> FALSE,
          tbl |-> Append(tbl, [job_id |-> job_id,
                               scheduled_time |-> scheduled_time,
                               status |-> "pending",
                               user_ids |-> JoinIds(user_ids),
                               created_by |-> created_by,
                               completed_at |-> <<>>])]

\* mutant of update_job_status: the outcome is not stored
update_job_status_lost(tbl, job_id, status, completed_at) == tbl

\* database.py lines 177-183; completed_at is always a datetime, and a
\* datetime is true
update_job_status(tbl, job_id, status, completed_at) ==
    LET i == JobIndex(tbl, job_id)
    IN  IF i = 0 THEN tbl
        ELSE [tbl EXCEPT ![i].status = status,
                         ![i].completed_at = <<completed_at>>]

\* database.py lines 194-200
cancel_scheduled_job(tbl, job_id) ==
    LET i == JobIndex(tbl, job_id)
    IN  IF i = 0 THEN tbl ELSE [tbl EXCEPT ![i].status = "cancelled"]

Terminal == {"completed", "failed", "cancelled"}

\* functions.py lines 274-292: the rows in a terminal status are deleted
clear_completed_jobs(tbl) ==
    SelectSeq(tbl, LAMBDA job : job.status \notin Terminal)

\* a registered job of the scheduler: DateTrigger(run_date), and the
\* closure send_scheduled_emails with the user_ids and fetch_days it holds
\* (fetch_days 0: the closure of main.py, which passes none)
Trigger(job_id, run_date, user_ids, fetch_days) ==
    [id |-> job_id, run_date |-> run_date, user_ids |-> user_ids,
     fetch_days |-> fetch_days]

\* mutant of add_job: a job of the same id is kept beside the new one
add_job_beside(store, job) == store \cup {job}

\* scheduler.add_job(..., id=job_id, replace_existing=True): a job of the
\* same id is replaced
add_job(store, job) ==
    {t \in store : t.id # job.id} \cup {job}

\* mutant of remove_job: the removal of a job that is not in the store is
\* not an error
remove_job_silent(store, job_id) ==
    [raised |-> FALSE, store |-> {t \in store : t.id # job_id}]

\* scheduler.remove_job(job_id): JobLookupError when there is no such job
remove_job(store, job_id) ==
    [raised |-> \A t \in store : t.id # job_id,
     store |-> {t \in store : t.id # job_id}]

\* what a scheduling endpoint answered, kept for the one state that follows
\* the request: the arguments the handler read, and the table and the store
\* it started from
NoReply ==
    [op |-> "none", success |-> FALSE, message |-> "", job_id |-> "",
     run_date |-> <<>>, user_ids |-> <<>>, fetch_days |-> NoDays,
     pre_jobs |-> <<>>, pre_triggers |-> {}]

----------------------------------------------------------------------------
(* src/agent.py: send_email_to_users *)

\* the arguments of a call: <<>> is user_ids None or empty, 0 is None
UserIdLists == {<<>>, <<2>>, <<1, 2>>, <<3>>, <<2, 2>>}
BroadcastIds == {0, 1, 3}
FetchDaysArgs == {0, 1}

\* mutant of ResolveUsers: the admin filter of line 481 is applied to an
\* explicit list as well
ResolveUsersFiltersList(tbl, user_ids, include_admins) ==
    SelectSeq(tbl, LAMBDA u :
        /\ user_ids # <<>> => \E i \in 1..Len(user_ids) : user_ids[i] = u.id
        /\ include_admins \/ u.role # "admin")

\* lines 472-481: the recipients, in table order
ResolveUsers(tbl, user_ids, include_admins) ==
    IF user_ids # <<>>
    THEN SelectSeq(tbl, LAMBDA u :
                     \E i \in 1..Len(user_ids) : user_ids[i] = u.id)
    ELSE IF include_admins THEN tbl
    ELSE SelectSeq(tbl, LAMBDA u : u.role # "admin")

\* mutant of UserFetchDays: the stored preference is not read
UserFetchDaysWithoutPreference(fetch_days_ahead, user) ==
    IF fetch_days_ahead # 0 THEN fetch_days_ahead ELSE DefaultFetchDays

\* lines 514-519
UserFetchDays(fetch_days_ahead, user) ==
    IF fetch_days_ahead # 0 THEN fetch_days_ahead
    ELSE IF user.fetch_days # 0 THEN user.fetch_days ELSE DefaultFetchDays

\* line 489
BroadcastFetchDays(fetch_days_ahead) ==
    IF fetch_days_ahead # 0 THEN fetch_days_ahead ELSE DefaultFetchDays

IdleRun ==
    [phase |-> "idle", broadcast_from_user_id |-> 0, fetch_days_ahead |-> 0,
     users |-> <<>>, idx |-> 0, broadcast_events |-> <<>>,
     events |-> <<>>, summary |-> NoDocument,
     results |-> [total |-> 0, success |-> 0, failed |-> 0],
     aborted |-> FALSE, log0 |-> 0,
     fetched |-> <<>>, rendered |-> <<>>, sent |-> <<>>, processed |-> <<>>,
     exchanges |-> <<>>, mailed |-> <<>>, windows |-> <<>>]

\* history kept with a run: aborted, the return of line 500 was taken; log0,
\* the rows email_logs held when the run started; fetched, the calls of
\* fetch_user_calendar_events as <<user id, iteration>> (iteration 0 is
\* before the loop); rendered and sent, the recipients generate_ai_summary
\* and send_email were called for; processed, the recipients whose iteration
\* has ended; exchanges, the refresh exchanges the run has made with the
\* token endpoint as <<user id, refresh token, whether a token came back>>;
\* mailed, for each call of send_email what the mail endpoint did, how many
\* messages the call submitted to it, and what the call returned; windows,
\* for each call in fetched the fetch_days it was given

\* the run's history after a call c of get_valid_token
Exchanged(r, c) ==
    IF c.requests = 0 THEN r
    ELSE [r EXCEPT !.exchanges =
            Append(@, <<c.user_id,
                        get_user_tokens(c.pre, c.user_id)[1].refresh_token,
                        c.ret # <<>>>>)]

\* the rows the run has written to email_logs
RunAudit == SubSeq(logs, run.log0 + 1, Len(logs))

\* the user of the current iteration of the loop of line 510
CurrentUser == run.users[run.idx]

\* the end of one iteration: the next recipient, or the return of line 597
NextRecipient(r) ==
    [r EXCEPT !.idx = @ + 1,
              !.phase = IF r.idx + 1 > Len(r.users) THEN "done" ELSE "loop",
              !.events = <<>>, !.summary = NoDocument,
              !.processed = Append(@, r.users[r.idx].id)]

\* mutant of CountFailed: a failure path forgets its increment
CountFailedForgotten(r) == r

\* lines 546, 571, 587: results['failed'] += 1
CountFailed(r) == [r EXCEPT !.results.failed = @ + 1]

\* mutant of CountSuccess: a delivery is counted as a failure
CountSuccessAsFailed(r) == [r EXCEPT !.results.failed = @ + 1]

\* line 568: results['success'] += 1
CountSuccess(r) == [r EXCEPT !.results.success = @ + 1]

\* mutant of FailRecipient: a recipient's failure ends the loop
FailRecipientBreaks(r) ==
    [CountFailed(r) EXCEPT !.phase = "done",
                           !.processed = Append(@, r.users[r.idx].id)]

\* mutant of FailRecipient: the failed recipient is tried again
FailRecipientRetries(r) ==
    [CountFailed(r) EXCEPT !.phase = "loop", !.events = <<>>,
                           !.summary = NoDocument]

\* a recipient's failure is counted and the loop goes on: the continue of
\* line 547, the end of the try body after line 571, the handler of
\* lines 573-587
FailRecipient(r) == NextRecipient(CountFailed(r))

\* mutant of BroadcastOutcome: the return of line 500 is missing
BroadcastOutcomeFallsThrough(r, events) ==
    IF events = <<>>
    THEN [r EXCEPT !.phase = "loop", !.aborted = TRUE,
                   !.results.failed = Len(r.users)]
    ELSE [r EXCEPT !.phase = "loop", !.broadcast_events = events]

\* lines 498-502: a failed broadcast fetch returns at once, every recipient
\* counted as failed; otherwise the loop starts with the events
BroadcastOutcome(r, events) ==
    IF events = <<>>
    THEN [r EXCEPT !.phase = "done", !.aborted = TRUE,
                   !.results.failed = Len(r.users)]
    ELSE [r EXCEPT !.phase = "loop", !.broadcast_events = events]

\* lines 457-508 up to the broadcast fetch: the recipients are resolved, and
\* the call returns at once when there are none. user_ids and include_admins
\* are not read after line 481 and are not kept.
BeginRun(user_ids, broadcast_from_user_id, include_admins, fetch_days_ahead) ==
    LET us == ResolveUsers(users, user_ids, include_admins)
        fetches == /\ us # <<>>
                   /\ broadcast_from_user_id # 0
                   /\ get_user_by_id(users, broadcast_from_user_id) # <<>>
    IN  [IdleRun EXCEPT
           !.phase = IF us = <<>> THEN "done"
                     ELSE IF fetches THEN "bfetch" ELSE "loop",
           !.broadcast_from_user_id = broadcast_from_user_id,
           !.fetch_days_ahead = fetch_days_ahead,
           !.users = us,
           !.idx = IF us = <<>> THEN 0 ELSE 1,
           !.log0 = Len(logs),
           !.results.total = Len(us)]

\* history: the arguments lines 472-481 read, kept for the one state that
\* follows the call
NoResolution == [made |-> FALSE, user_ids |-> <<>>, include_admins |-> FALSE]
Resolution(user_ids, include_admins) ==
    [made |-> TRUE, user_ids |-> user_ids, include_admins |-> include_admins]

\* a direct call of send_email_to_users (trigger_agent, api_send_to_selected,
\* the daily job)
StartRun(user_ids, broadcast_from_user_id, include_admins, fetch_days_ahead) ==
    /\ run.phase = "idle"
    /\ run' = BeginRun(user_ids, broadcast_from_user_id, include_admins,
                       fetch_days_ahead)
    /\ UNCHANGED <<rendering, saving, env, login, scheduling>>
    /\ call' = NoCall
    /\ UNCHANGED <<now, users, tokens, logs>>
    /\ reply' = NoReply
    /\ resolved' = Resolution(user_ids, include_admins)
    /\ UNCHANGED <<jobs, triggers, running, fired>>

\* lines 491-502: the broadcast source's events are fetched
BroadcastFetch(resp, api) ==
    /\ run.phase = "bfetch"
    /\ LET f == fetch_user_calendar_events(tokens,
                    run.broadcast_from_user_id, now, resp, api)
           r == [Exchanged(run, f.call) EXCEPT
                   !.fetched = Append(@, <<run.broadcast_from_user_id, 0>>),
                   !.windows =
                       Append(@, BroadcastFetchDays(run.fetch_days_ahead))]
       IN  /\ tokens' = f.call.post
           /\ UNCHANGED <<rendering, saving, env, login, scheduling>>
           /\ call' = NoCall
           /\ run' = BroadcastOutcome(r, f.events)
    /\ UNCHANGED <<now, users, logs>>
    /\ reply' = NoReply
    /\ resolved' = NoResolution
    /\ UNCHANGED <<jobs, triggers, running, fired>>

\* lines 524-527: the recipient gets the broadcast events
UseBroadcastEvents ==
    /\ run.phase = "loop"
    /\ run.broadcast_from_user_id # 0 /\ run.broadcast_events # <<>>
    /\ run' = [run EXCEPT !.phase = "render",
                          !.events = run.broadcast_events[1]]
    /\ UNCHANGED <<rendering, saving, env, login, scheduling>>
    /\ call' = NoCall
    /\ UNCHANGED <<now, users, tokens, logs>>
    /\ reply' = NoReply
    /\ resolved' = NoResolution
    /\ UNCHANGED <<jobs, triggers, running, fired>>

\* lines 528-547: the recipient's own events are fetched
RecipientFetch(resp, api) ==
    /\ run.phase = "loop"
    /\ ~(run.broadcast_from_user_id # 0 /\ run.broadcast_events # <<>>)
    /\ LET user == CurrentUser
           days == UserFetchDays(run.fetch_days_ahead, user)
           f == fetch_user_calendar_events(tokens, user.id, now, resp, api)
           r == [Exchanged(run, f.call) EXCEPT
                   !.fetched = Append(@, <<user.id, run.idx>>),
                   !.windows = Append(@, days)]
           row == LogRow(user, "Calendar Summary", "failed",
                         "Failed to fetch calendar events", 0, days)
       IN  /\ tokens' = f.call.post
           /\ UNCHANGED <<rendering, saving, env, login, scheduling>>
           /\ call' = NoCall
           /\ IF f.events = <<>>
              THEN /\ logs' = log_email_sent(logs, row)
                   /\ run' = FailRecipient(r)
              ELSE /\ logs' = logs
                   /\ run' = [r EXCEPT !.phase = "render",
                                       !.events = f.events[1]]
    /\ UNCHANGED <<now, users>>
    /\ reply' = NoReply
    /\ resolved' = NoResolution
    /\ UNCHANGED <<jobs, triggers, running, fired>>

\* lines 549 and 573-587: the summary is rendered; an exception ends the
\* iteration in the handler
RecipientRender(backend) ==
    /\ run.phase = "render"
    /\ LET user == CurrentUser
           days == UserFetchDays(run.fetch_days_ahead, user)
           broadcast == run.broadcast_from_user_id # 0
                        /\ run.broadcast_events # <<>>
           source == get_user_by_id(users, run.broadcast_from_user_id)
           summary_name == IF broadcast
                           THEN <<source[1].name, "'s Schedule">>
                           ELSE <<user.name>>
           doc == generate_ai_summary(run.events, summary_name, days, backend,
                                      now).doc
           row == LogRow(user, "Calendar Summary", "failed", "exception",
                         0, days)
           r == [run EXCEPT !.rendered = Append(@, user.id)]
       IN  IF doc.raised
           THEN /\ logs' = log_email_sent(logs, row)
                /\ run' = FailRecipient(r)
           ELSE /\ logs' = logs
                /\ run' = [r EXCEPT !.phase = "send", !.summary = doc]
    /\ UNCHANGED <<rendering, saving, env, login, scheduling>>
    /\ call' = NoCall
    /\ UNCHANGED <<now, users, tokens>>
    /\ reply' = NoReply
    /\ resolved' = NoResolution
    /\ UNCHANGED <<jobs, triggers, running, fired>>

\* lines 551-571: the summary is sent
RecipientSend(resp, mail) ==
    /\ run.phase = "send"
    /\ LET user == CurrentUser
           days == UserFetchDays(run.fetch_days_ahead, user)
           subject == IF run.broadcast_from_user_id # 0
                      THEN "Team Calendar Update"
                      ELSE "Your N-Day Calendar Summary"
           s == send_email(tokens, user, subject, now, Len(run.events),
                           days, resp, mail)
           r == [Exchanged(run, s.call) EXCEPT
                   !.sent = Append(@, user.id),
                   !.mailed = Append(@, [mail |-> IF s.requests = 0
                                                  THEN "none" ELSE mail,
                                         requests |-> s.requests,
                                         returned |-> s.sent])]
       IN  /\ tokens' = s.call.post
           /\ UNCHANGED <<rendering, saving, env, login, scheduling>>
           /\ call' = NoCall
           /\ logs' = log_email_sent(logs, s.row)
           /\ run' = IF s.sent THEN NextRecipient(CountSuccess(r))
                     ELSE FailRecipient(r)
    /\ UNCHANGED <<now, users>>
    /\ reply' = NoReply
    /\ resolved' = NoResolution
    /\ UNCHANGED <<jobs, triggers, running, fired>>

\* lines 485, 500, 597: the call returns run.results to its caller. One call
\* is followed from its start to its return.
ReturnRun ==
    /\ run.phase = "done"
    /\ run' = [IdleRun EXCEPT !.phase = "returned", !.results = run.results]
    /\ UNCHANGED <<rendering, saving, env, login, scheduling>>
    /\ call' = NoCall
    /\ UNCHANGED <<now, users, tokens, logs>>
    /\ reply' = NoReply
    /\ resolved' = NoResolution
    /\ UNCHANGED <<jobs, triggers, running, fired>>

----------------------------------------------------------------------------
(* the web layer's calls, and the clock *)

\* what the authorization-code exchange can hand the callback
GrantedTokens ==
    [access_token : {None, "a0"}, refresh_token : {None, "r0"},
     expires_in : {AbsentSeconds} \cup {Seconds(n) : n \in 0..MaxLifetime}]

\* main.py callback: save_token for the authenticated user; an exception
\* is caught by the handler
Callback(user_id, token) ==
    /\ get_user_by_id(users, user_id) # <<>>
    /\ tokens' = save_token(tokens, user_id, token.access_token,
                            token.refresh_token,
                            IF token.expires_in.tag = "absent"
                            THEN Seconds(DefaultExpiresIn)
                            ELSE token.expires_in, now).tbl
    /\ UNCHANGED <<rendering, saving, env, login, scheduling>>
    /\ call' = NoCall
    /\ UNCHANGED <<now, users, logs, run>>
    /\ reply' = NoReply
    /\ resolved' = NoResolution
    /\ UNCHANGED <<jobs, triggers, running, fired>>

\* main.py api_test_token: get_valid_token(user_id)
TestToken(user_id, resp) ==
    /\ UNCHANGED <<rendering, saving, env, login, scheduling>>
    /\ call' = CallRecord(tokens, user_id, now, resp)
    /\ tokens' = call'.post
    /\ UNCHANGED <<now, users, logs, run>>
    /\ reply' = NoReply
    /\ resolved' = NoResolution
    /\ UNCHANGED <<jobs, triggers, running, fired>>

Tick ==
    /\ now < MaxTime
    /\ now' = now + 1
    /\ UNCHANGED <<rendering, saving, env, login, scheduling>>
    /\ call' = NoCall
    /\ UNCHANGED <<users, tokens, logs, run>>
    /\ reply' = NoReply
    /\ resolved' = NoResolution
    /\ UNCHANGED <<jobs, triggers, running, fired>>

----------------------------------------------------------------------------
(* src/functions.py, src/main.py: scheduled jobs *)

\* functions.py lines 202-261, and the same steps at main.py lines 345-413:
\* the time is normalised to UTC and compared with the clock, the trigger
\* is registered, and then the row is stored. An exception on the way is
\* caught and answered with its text; what was done before it stays done.
Scheduled(tbl, store, t, datetime_str, tz, user_ids, fetch_days, created_by) ==
    LET utc == ToUtc(datetime_str, tz)
        id == JobId(utc.t, created_by)
        added == add_job(store, Trigger(id, utc.t, user_ids, fetch_days))
        created == create_scheduled_job(tbl, id, utc.t, user_ids, created_by)
        refused == [success |-> FALSE, message |-> "ValueError",
                    job_id |-> "", run_date |-> <<>>, user_ids |-> <<>>,
                    jobs |-> tbl, triggers |-> store]
    IN  IF utc.raised THEN refused
        ELSE IF NotLater(utc.t, t)
        THEN [refused EXCEPT
                !.message = "Please select a future date & time!",
                !.run_date = <<utc.t>>]
        ELSE [success |-> ~created.raised,
              message |-> IF created.raised THEN "IntegrityError"
                          ELSE "Email scheduled",
              job_id |-> id, run_date |-> <<utc.t>>, user_ids |-> user_ids,
              jobs |-> created.tbl, triggers |-> added]

\* the reply of a request that went through Scheduled
ScheduleReply(op, fetch_days, s) ==
    [op |-> op, success |-> s.success, message |-> s.message,
     job_id |-> s.job_id, run_date |-> s.run_date, user_ids |-> s.user_ids,
     fetch_days |-> fetch_days, pre_jobs |-> jobs, pre_triggers |-> triggers]

\* functions.py lines 193-261
schedule_email_job(datetime_str, admin_timezone, user_ids, fetch_days, created_by_user_id) ==
    LET d == IntOf(fetch_days)
        rejected == d.raised \/ d.n < 1 \/ d.n > MaxFetchDays
        s == Scheduled(jobs, triggers, now, datetime_str, admin_timezone,
                       user_ids, d.n, created_by_user_id)
    IN  /\ reply' = IF rejected
                    THEN [NoReply EXCEPT
                            !.op = "schedule_email_job",
                            !.message = IF d.raised THEN "Invalid days value"
                                        ELSE "Days must be between 1 and 365",
                            !.fetch_days = fetch_days,
                            !.pre_jobs = jobs, !.pre_triggers = triggers]
                    ELSE ScheduleReply("schedule_email_job", fetch_days, s)
        /\ jobs' = IF rejected THEN jobs ELSE s.jobs
        /\ triggers' = IF rejected THEN triggers ELSE s.triggers
        /\ UNCHANGED <<rendering, saving, env, login, scheduling>>
        /\ call' = NoCall
        /\ resolved' = NoResolution
        /\ UNCHANGED <<now, users, tokens, logs, run, running, fired>>

\* main.py lines 334-413: data is the JSON body, of which datetime and
\* user_ids are read; the closure passes no fetch_days to the fan-out
api_schedule_email(data, user_timezone, session_user_id) ==
    LET missing == data.datetime.tag = "empty"
        s == Scheduled(jobs, triggers, now, data.datetime, user_timezone,
                       data.user_ids, 0, session_user_id)
    IN  /\ reply' = IF missing
                    THEN [NoReply EXCEPT
                            !.op = "api_schedule_email",
                            !.message = "Date & time required",
                            !.fetch_days = data.fetch_days,
                            !.pre_jobs = jobs, !.pre_triggers = triggers]
                    ELSE ScheduleReply("api_schedule_email",
                                       data.fetch_days, s)
        /\ jobs' = IF missing THEN jobs ELSE s.jobs
        /\ triggers' = IF missing THEN triggers ELSE s.triggers
        /\ UNCHANGED <<rendering, saving, env, login, scheduling>>
        /\ call' = NoCall
        /\ resolved' = NoResolution
        /\ UNCHANGED <<now, users, tokens, logs, run, running, fired>>

\* functions.py lines 264-271: remove_job, then cancel_scheduled_job; the
\* JobLookupError of remove_job is caught and answered as a failure
cancel_job(store, tbl, job_id) ==
    LET removed == remove_job(store, job_id)
    IN  IF removed.raised
        THEN [success |-> FALSE, message |-> "JobLookupError",
              triggers |-> store, jobs |-> tbl]
        ELSE [success |-> TRUE, message |-> "Job cancelled!",
              triggers |-> removed.store,
              jobs |-> cancel_scheduled_job(tbl, job_id)]

\* main.py lines 416-432: the same steps behind the check of line 422
api_cancel_job(job_id) ==
    LET c == cancel_job(triggers, jobs, job_id)
    IN  /\ reply' = [NoReply EXCEPT
                       !.op = "api_cancel_job",
                       !.success = job_id # "" /\ c.success,
                       !.message = IF job_id = "" THEN "Job ID required"
                                   ELSE c.message,
                       !.job_id = job_id,
                       !.pre_jobs = jobs, !.pre_triggers = triggers]
        /\ jobs' = IF job_id = "" THEN jobs ELSE c.jobs
        /\ triggers' = IF job_id = "" THEN triggers ELSE c.triggers
        /\ UNCHANGED <<rendering, saving, env, login, scheduling>>
        /\ call' = NoCall
        /\ resolved' = NoResolution
        /\ UNCHANGED <<now, users, tokens, logs, run, running, fired>>

\* main.py lines 435-460, with the steps of functions.py lines 274-292
api_clear_completed_jobs ==
    /\ jobs' = clear_completed_jobs(jobs)
    /\ reply' = [NoReply EXCEPT
                   !.op = "api_clear_completed_jobs", !.success = TRUE,
                   !.pre_jobs = jobs, !.pre_triggers = triggers]
    /\ UNCHANGED <<rendering, saving, env, login, scheduling>>
    /\ call' = NoCall
    /\ resolved' = NoResolution
    /\ UNCHANGED <<now, users, tokens, logs, run, triggers, running, fired>>

\* no callback is running
NoCallback == Trigger("", 0, <<>>, 0)

\* mutant of CallbackArgs: a callback without a list includes the admins
CallbackArgsWithAdmins(job) ==
    [user_ids |-> job.user_ids, include_admins |-> TRUE,
     fetch_days_ahead |-> job.fetch_days]

\* functions.py lines 218-231, main.py lines 367-378: the arguments the
\* callback gives send_email_to_users
CallbackArgs(job) ==
    [user_ids |-> job.user_ids, include_admins |-> job.user_ids # <<>>,
     fetch_days_ahead |-> job.fetch_days]

\* mutant of RunOnce: the job stays in the store after its run
RunRepeatedly(store, job) == store

\* DateTrigger(run_date): the scheduler removes a job of a date trigger
\* from the store when it submits its one run
RunOnce(store, job) == store \ {job}

\* the scheduler runs a job whose run_date has come: the job leaves the
\* store, as a date trigger has no later run, and send_scheduled_emails
\* (functions.py lines 213-231, main.py lines 363-379) calls the fan-out
\* with what the closure holds. raises: a query of agent.py lines 472-481
\* fails, and the call raises before any recipient is processed. One
\* callback runs at a time.
FireJob(job, raises) ==
    /\ job \in triggers
    /\ job.run_date <= now
    /\ running = NoCallback
    /\ run.phase = "idle"
    /\ triggers' = RunOnce(triggers, job)
    /\ running' = job
    /\ fired' = Append(fired, job.id)
    /\ LET args == CallbackArgs(job)
       IN  /\ run' = IF raises THEN [IdleRun EXCEPT !.phase = "raised"]
                     ELSE BeginRun(args.user_ids, 0, args.include_admins,
                                   args.fetch_days_ahead)
           /\ resolved' = IF raises THEN NoResolution
                          ELSE Resolution(args.user_ids, args.include_admins)
    /\ UNCHANGED <<rendering, saving, env, login, scheduling>>
    /\ call' = NoCall
    /\ reply' = NoReply
    /\ UNCHANGED <<now, users, tokens, logs, jobs>>

\* functions.py lines 233-238, main.py lines 381-386: the fan-out has
\* returned or raised, and update_job_status stores the outcome
FinishJob ==
    /\ running # NoCallback
    /\ run.phase \in {"done", "raised"}
    /\ jobs' = update_job_status(jobs, running.id,
                                 IF run.phase = "done" THEN "completed"
                                 ELSE "failed", now)
    /\ reply' = [NoReply EXCEPT
                   !.op = "send_scheduled_emails",
                   !.success = (run.phase = "done"),
                   !.job_id = running.id,
                   !.user_ids = running.user_ids,
                   !.pre_jobs = jobs, !.pre_triggers = triggers]
    /\ run' = IdleRun
    /\ running' = NoCallback
    /\ UNCHANGED <<rendering, saving, env, login, scheduling>>
    /\ call' = NoCall
    /\ resolved' = NoResolution
    /\ UNCHANGED <<now, users, tokens, logs, triggers, fired>>

\* main.py lines 160-216 for an email that has no row in users:
\* get_or_create_user (database.py lines 88-97) adds the row with the role
\* ADMIN_EMAILS gives the email, and save_token stores the grant
FirstLogin(role) ==
    /\ get_user_by_id(users, 3) = <<>>
    /\ users' = Append(users, [id |-> 3, email |-> Text("n3@x", FALSE, FALSE), name |-> "n3",
                               role |-> role,
                               fetch_days |-> DefaultFetchDays,
                               created_at |-> now])
    /\ tokens' = save_token(tokens, 3, "a0", "r0",
                            Seconds(DefaultExpiresIn), now).tbl
    /\ UNCHANGED <<rendering, saving, env, login, scheduling>>
    /\ call' = NoCall
    /\ reply' = NoReply
    /\ resolved' = NoResolution
    /\ UNCHANGED <<now, logs, run, jobs, triggers, running, fired>>

----------------------------------------------------------------------------

\* the users table after two first authentications
InitUsers ==
    <<[id |-> 1, email |-> Text("n1@x", FALSE, FALSE), name |-> "n1", role |-> "admin",
       fetch_days |-> 0, created_at |-> 0],
      [id |-> 2, email |-> Text("n2@x", FALSE, FALSE), name |-> "n2", role |-> "user",
       fetch_days |-> 3, created_at |-> 0]>>

\* the tokens table the callback leaves at time 0 after the grants gs
RECURSIVE Granted(_)
Granted(gs) ==
    IF gs = <<>> THEN <<>>
    ELSE LET g == gs[Len(gs)]
         IN  save_token(Granted(SubSeq(gs, 1, Len(gs) - 1)), g[1], "a0",
                        g[2], g[3], 0).tbl

\* token operations only: the callback, api_test_token and the clock
InitTokens ==
    /\ now = 0
    /\ users = InitUsers
    /\ tokens = <<>>
    /\ logs = <<>>
    /\ call = NoCall
    /\ run = IdleRun
    /\ jobs = <<>>
    /\ triggers = {}
    /\ running = NoCallback
    /\ fired = <<>>
    /\ reply = NoReply
    /\ resolved = NoResolution
    /\ rendering = NoRendering
    /\ saving = NoSaving
    /\ env = UnsetEnv
    /\ login = NoLogin
    /\ scheduling = NoScheduling

NextTokens ==
    \/ \E u \in {1, 2}, token \in GrantedTokens : Callback(u, token)
    \/ \E u \in {1, 2, 3}, resp \in TokenResponses : TestToken(u, resp)
    \/ Tick

SpecTokens == InitTokens /\ [][NextTokens]_vars

\* the tokens tables a fan-out starts from: nobody authenticated; both
\* authenticated with short-lived tokens, one without a refresh token; both
\* with a refresh token, one long-lived
InitTokenTables ==
    {Granted(<<>>),
     Granted(<<<<1, "r0", Seconds(0)>>, <<2, None, Seconds(MaxLifetime)>>>>),
     Granted(<<<<2, "r0", Seconds(0)>>,
               <<1, "r0", Seconds(DefaultExpiresIn)>>>>)}

\* the email_logs table a fan-out starts from: empty, or with a row an
\* earlier run wrote
InitLogTables ==
    {<<>>, <<LogRow(InitUsers[2], "Your N-Day Calendar Summary", "success",
                    None, 1, 3)>>}

\* one fan-out run and the clock
Init ==
    /\ now = 0
    /\ users = InitUsers
    /\ tokens \in InitTokenTables
    /\ logs \in InitLogTables
    /\ call = NoCall
    /\ run = IdleRun
    /\ jobs = <<>>
    /\ triggers = {}
    /\ running = NoCallback
    /\ fired = <<>>
    /\ reply = NoReply
    /\ resolved = NoResolution
    /\ rendering = NoRendering
    /\ saving = NoSaving
    /\ env = UnsetEnv
    /\ login = NoLogin
    /\ scheduling = NoScheduling

Next ==
    \/ \E ids \in UserIdLists, b \in BroadcastIds, adm \in BOOLEAN,
          d \in FetchDaysArgs : StartRun(ids, b, adm, d)
    \/ \E resp \in TokenResponses, api \in CalendarResponses :
          BroadcastFetch(resp, api)
    \/ UseBroadcastEvents
    \/ \E resp \in TokenResponses, api \in CalendarResponses :
          RecipientFetch(resp, api)
    \/ \E backend \in Backends : RecipientRender(backend)
    \/ \E resp \in TokenResponses, mail \in MailResponses :
          RecipientSend(resp, mail)
    \/ ReturnRun
    \/ Tick

Spec == Init /\ [][Next]_vars

----------------------------------------------------------------------------
(* scheduled jobs: the scheduling endpoints, the scheduler and the clock *)

\* the arguments of the scheduling requests
DatetimeArgs == {LocalTime(MaxRunDate), BadTime, EmptyTime}
JobUserIdLists == {<<>>, <<1, 2>>}
\* the calls of schedule_email_job: every time, zone and list with a window
\* that passes, and one call for each window that does not
JobCalls ==
    [datetime : DatetimeArgs, tz : Timezones, user_ids : JobUserIdLists,
     fetch_days : {Days(1)}]
    \cup [datetime : {LocalTime(MaxRunDate)}, tz : {"UTC"},
          user_ids : {<<>>},
          fetch_days : {Days(0), Days(MaxFetchDays + 1), NotANumber}]
\* the bodies posted to api_schedule_email: most carry no fetch_days, one
\* carries a window out of range
ScheduleRequests ==
    [datetime : DatetimeArgs, user_ids : JobUserIdLists, fetch_days : {NoDays}]
    \cup [datetime : {LocalTime(MaxRunDate)}, user_ids : {<<>>},
          fetch_days : {Days(0)}]
JobIds == {JobId(t, u) : t \in 1..MaxRunDate, u \in Admins} \cup {""}

\* what the providers answer while a scheduled fan-out runs: the calendar
\* lists one event, the summary backend writes a text, the mail is accepted
JobTokenResponse == TokenResponse("non200", None, None, AbsentSeconds)
JobCalendarResponse == [kind |-> "ok", items |-> <<TimedEvent>>]

\* both users have authenticated, with tokens that outlive the clock
InitJobs ==
    /\ now = 0
    /\ users = InitUsers
    /\ tokens = Granted(<<<<1, "r0", Seconds(DefaultExpiresIn)>>,
                          <<2, "r0", Seconds(DefaultExpiresIn)>>>>)
    /\ logs = <<>>
    /\ call = NoCall
    /\ run = IdleRun
    /\ jobs = <<>>
    /\ triggers = {}
    /\ running = NoCallback
    /\ fired = <<>>
    /\ reply = NoReply
    /\ resolved = NoResolution
    /\ rendering = NoRendering
    /\ saving = NoSaving
    /\ env = UnsetEnv
    /\ login = NoLogin
    /\ scheduling = NoScheduling

NextJobs ==
    \/ \E c \in JobCalls, u \in Admins :
          schedule_email_job(c.datetime, c.tz, c.user_ids, c.fetch_days, u)
    \/ \E data \in ScheduleRequests, u \in Admins :
          api_schedule_email(data, USER_TIMEZONE, u)
    \/ \E id \in JobIds : api_cancel_job(id)
    \/ api_clear_completed_jobs
    \/ \E job \in triggers, raises \in BOOLEAN : FireJob(job, raises)
    \/ RecipientFetch(JobTokenResponse, JobCalendarResponse)
    \/ RecipientRender("text")
    \/ RecipientSend(JobTokenResponse, "200")
    \/ FinishJob
    \/ \E role \in {"user", "admin"} : FirstLogin(role)
    \/ Tick

SpecJobs == InitJobs /\ [][NextJobs]_vars

----------------------------------------------------------------------------
(* Credential refresher: properties of one call of get_valid_token, read    *)
(* from the record api_test_token leaves in call                            *)

\* a call of get_valid_token has just returned
Called == call.user_id # 0

\* the caller's row before and after the call (when there is one)
PreRow == call.pre[TokenIndex(call.pre, call.user_id)]
PostRow == call.post[TokenIndex(call.post, call.user_id)]
HadRow == TokenIndex(call.pre, call.user_id) # 0

\* the call returned a credential
Returned == call.ret # <<>>

\* C1: a call for a user whose stored expires_at is in the future makes no
\* token-exchange request, leaves the tokens table as it was, and returns the
\* stored access and refresh tokens (the ciphertexts of what it returns are
\* the stored ones).
C1_FreshTokenReturnedUnchanged ==
    (Called /\ HadRow /\ PreRow.expires_at > call.at)
        => /\ call.requests = 0
           /\ call.post = call.pre
           /\ Returned
           /\ encrypt_token(call.ret[1].access_token) = PreRow.access_token
           /\ encrypt_token(call.ret[1].refresh_token) = PreRow.refresh_token

\* C1 witness: a fresh credential with a refresh token was asked for and
\* returned
C1_Witness ==
    /\ Called /\ HadRow /\ PreRow.expires_at > call.at
    /\ PreRow.refresh_token # <<>>
    /\ Returned

\* the exchange the call requested failed: an exception, a status other than
\* 200, or a 200 response that lacks an access token or a usable lifetime
ExchangeFailed ==
    /\ call.requests = 1
    /\ \/ call.resp.kind # "ok"
       \/ Falsy(call.resp.access_token)
       \/ call.resp.expires_in.tag = "null"

\* C2: when the credential is expired and the exchange fails for any reason,
\* the call returns failure and the tokens table is what it was before.
C2_FailedExchangeLeavesRecord ==
    (Called /\ ExchangeFailed) => (~Returned /\ call.post = call.pre)

\* C2 witness: the provider answered 200 without an access token, and the
\* call failed
C2_Witness ==
    /\ Called /\ ExchangeFailed
    /\ call.resp.kind = "ok" /\ Falsy(call.resp.access_token)
    /\ ~Returned

\* C3: for a user with no row, or with an expired row without a refresh
\* token, the call returns failure, requests no exchange and leaves the
\* tokens table as it was.
C3_NoCredentialNoRequest ==
    (Called /\ (~HadRow \/ (call.at > PreRow.expires_at
                            /\ PreRow.refresh_token = <<>>)))
        => (~Returned /\ call.requests = 0 /\ call.post = call.pre)

\* C3 witness: an expired row without a refresh token was asked for
C3_Witness ==
    /\ Called /\ HadRow
    /\ call.at > PreRow.expires_at /\ PreRow.refresh_token = <<>>
    /\ ~Returned

\* the provider accepted the refresh token: status 200 with an access token
\* and a lifetime (reported, or none and the default applies)
ExchangeAccepted ==
    /\ call.requests = 1
    /\ call.resp.kind = "ok"
    /\ ~Falsy(call.resp.access_token)
    /\ call.resp.expires_in.tag # "null"

\* C4: when the credential is expired and the provider accepts the refresh
\* token, the call succeeds and the stored expires_at is strictly later than
\* it was, for every lifetime the provider reports (0 included).
C4_RefreshMovesExpiryLater ==
    (Called /\ ExchangeAccepted)
        => (Returned /\ PostRow.expires_at > PreRow.expires_at)

\* C4 witness: an accepted exchange that reported a lifetime of 0 seconds
C4_Witness ==
    /\ Called /\ ExchangeAccepted
    /\ call.resp.expires_in = Seconds(0)
    /\ Returned

\* C5 (as claimed): after a successful refresh the stored refresh token is
\* the previous one when the response carries none, and the provider's when
\* the response carries one.
C5_RefreshTokenFollowsRotation ==
    (Called /\ call.requests = 1 /\ Returned)
        => PostRow.refresh_token =
              IF Falsy(call.resp.refresh_token)
              THEN PreRow.refresh_token
              ELSE encrypt_token(call.resp.refresh_token)

----------------------------------------------------------------------------
(* Fan-out orchestrator: properties of one run of send_email_to_users       *)

\* the run has reached a return statement; run.results is what it returns
Done == run.phase = "done"

\* broadcast_from_user_id was given
Broadcast == run.broadcast_from_user_id # 0

\* the recipients the run resolved
Recipients == run.users

\* how often x occurs in the sequence q
Count(q, x) == Cardinality({k \in 1..Len(q) : q[k] = x})

\* C6: the aggregate a run returns satisfies total = success + failed, in
\* every mode, for every recipient set and every mix of outcomes.
C6_TotalIsSuccessPlusFailed ==
    run.phase \in {"done", "returned"}
        => run.results.total = run.results.success + run.results.failed

\* C6 witness: a run ends with successes and failures
C6_Witness ==
    Done /\ run.results.success >= 1 /\ run.results.failed >= 1

C8_BroadcastShortCircuit ==
    (Done /\ run.aborted)
        => /\ run.results = [total |-> Len(Recipients), success |-> 0,
                             failed |-> Len(Recipients)]
           /\ run.fetched = <<<<run.broadcast_from_user_id, 0>>>>
           /\ run.rendered = <<>> /\ run.sent = <<>> /\ run.processed = <<>>
           /\ RunAudit = <<>>

\* C8 witness: a broadcast to two recipients whose source fetch failed
C8_Witness ==
    Done /\ run.aborted /\ Broadcast /\ Len(Recipients) = 2

\* C9 (as claimed, for runs that resolve at least one recipient): a run
\* called with broadcast_from_user_id makes exactly one fetch, from the
\* broadcast source and before the first recipient; no recipient's own
\* calendar is fetched.
C9_BroadcastFetchesOnceFromSource ==
    (Done /\ Broadcast /\ Recipients # <<>>)
        => run.fetched = <<<<run.broadcast_from_user_id, 0>>>>

\* the email_logs row of a recipient whose fetch failed (lines 535-544)
FetchFailureRow(row) ==
    row.error_message = "Failed to fetch calendar events"

\* the email_logs row the handler of lines 573-587 writes
ExceptionRow(row) == row.error_message = "exception"

\* C10: in personalized mode every resolved recipient is processed exactly
\* once and in order; each one's events are fetched, whatever happened to the
\* recipients before it; it is rendered unless its own fetch failed, and sent
\* unless its own fetch or rendering failed.
C10_FailuresAreIsolated ==
    (Done /\ ~Broadcast)
        => /\ run.processed = [i \in 1..Len(Recipients) |-> Recipients[i].id]
           /\ run.fetched =
                 [i \in 1..Len(Recipients) |-> <<Recipients[i].id, i>>]
           /\ Len(RunAudit) = Len(Recipients)
           /\ \A i \in 1..Len(Recipients) :
                 LET u == Recipients[i].id
                     row == RunAudit[i]
                 IN  /\ row.user_id = u
                     /\ Count(run.rendered, u) =
                           IF FetchFailureRow(row) THEN 0 ELSE 1
                     /\ Count(run.sent, u) =
                           IF FetchFailureRow(row) \/ ExceptionRow(row)
                           THEN 0 ELSE 1

\* C10 witness: the first recipient's rendering raised, the second
\* recipient's mail was sent
C10_Witness ==
    /\ Done /\ ~Broadcast /\ Len(Recipients) = 2
    /\ ExceptionRow(RunAudit[1])
    /\ RunAudit[2].status = "success"

----------------------------------------------------------------------------
(* Recipient resolution: properties of the state a call of                  *)
(* send_email_to_users is in right after lines 472-481, read from resolved  *)
(* and the run it started                                                   *)

\* the ids of the rows of a sequence of users, and of a list of ids
IdsOf(us) == {us[i].id : i \in 1..Len(us)}
Given(user_ids) == {user_ids[i] : i \in 1..Len(user_ids)}

\* without a list the recipients are all users, or all users whose role is
\* not admin when include_admins is false
NoListResolution ==
    run.users = IF resolved.include_admins THEN users
                ELSE SelectSeq(users, LAMBDA u : u.role # "admin")

\* C11 as stated: with an explicit id list the recipients are exactly the
\* ids of the list and total is the number of ids given; without a list they
\* are all users, or the users who are not admins.
C11_RecipientsAreTheIdsGiven ==
    resolved.made =>
        IF resolved.user_ids # <<>>
        THEN /\ IdsOf(run.users) = Given(resolved.user_ids)
             /\ run.results.total = Len(resolved.user_ids)
        ELSE NoListResolution

\* C11 amended: with an explicit id list the recipients are the users that
\* exist with an id of the list, each once, whatever include_admins is, and
\* total is their number; without a list they are all users, or the users
\* who are not admins.
C11_RecipientsAreTheExistingIdsGiven ==
    resolved.made =>
        IF resolved.user_ids # <<>>
        THEN /\ IdsOf(run.users) = Given(resolved.user_ids) \cap IdsOf(users)
             /\ Len(run.users) = Cardinality(IdsOf(run.users))
             /\ run.results.total = Len(run.users)
        ELSE NoListResolution

\* a list that names an admin and a user is resolved with include_admins
\* false, and both are recipients
C11_Witness ==
    /\ resolved.made
    /\ resolved.user_ids = <<1, 2>>
    /\ ~resolved.include_admins
    /\ run.results.total = 2

----------------------------------------------------------------------------
(* Scheduled jobs: properties of the table scheduled_jobs, the scheduler's  *)
(* job store and the replies of the scheduling endpoints                    *)

\* the row of job_id in a table of scheduled jobs, where there is one
JobRow(tbl, job_id) == tbl[JobIndex(tbl, job_id)]
HasJob(tbl, job_id) == JobIndex(tbl, job_id) # 0

\* the registered triggers of job_id
TriggersOf(store, job_id) == {t \in store : t.id = job_id}

\* C12: over any sequence of schedule, fire, cancel and clear operations a
\* job's status only moves from pending to completed, failed or cancelled;
\* so it moves at most once, and a terminal status never changes.
C12_StatusLeavesPendingOnce ==
    [][\A i \in 1..Len(jobs) :
         LET id == jobs[i].job_id
         IN  (HasJob(jobs', id) /\ JobRow(jobs', id).status # jobs[i].status)
             => /\ jobs[i].status = "pending"
                /\ JobRow(jobs', id).status \in Terminal]_vars

\* the reply is that of a schedule request
ScheduleAnswered == reply.op \in {"schedule_email_job", "api_schedule_email"}

\* the request left the table and the job store as they were
NothingStored == jobs = reply.pre_jobs /\ triggers = reply.pre_triggers

\* the request's fire time, normalised to UTC, is not later than the clock
PastRequest ==
    ScheduleAnswered /\ reply.run_date # <<>> /\ reply.run_date[1] <= now

\* C13: a schedule request whose fire time, normalised to UTC, is not
\* strictly later than the current time is answered with a failure, stores
\* no ScheduledJob row and registers no trigger.
C13_PastTimeIsRefused ==
    PastRequest => ~reply.success /\ NothingStored

\* a request for the current minute is refused while a job is registered
C13_Witness ==
    /\ PastRequest
    /\ reply.run_date = <<now>>
    /\ reply.message = "Please select a future date & time!"
    /\ triggers # {}

\* the request carried a fetch_days that is no integer of 1..MaxFetchDays
WindowOutOfRange ==
    /\ ScheduleAnswered
    /\ \/ reply.fetch_days.tag = "text"
       \/ /\ reply.fetch_days.tag = "int"
          /\ reply.fetch_days.n \notin 1..MaxFetchDays

\* C14: a schedule request whose window is outside 1..365, or no integer,
\* is refused with the table and the job store left as they were, and no
\* registered job carries a window outside 1..365.
C14_WindowOutOfRangeIsRefused ==
    /\ WindowOutOfRange => ~reply.success /\ NothingStored
    /\ \A t \in triggers :
          t.fetch_days # 0 => t.fetch_days \in 1..MaxFetchDays

\* the rows of job_id in the table
RowsOf(tbl, job_id) == {i \in 1..Len(tbl) : tbl[i].job_id = job_id}

Fired(history) == {history[i] : i \in 1..Len(history)}

\* C16: cancelling a job that is pending and has not fired sets its status
\* to cancelled and removes its trigger, and the fan-out of a job that was
\* cancelled before it fired is never called afterwards.
C16_CancelledJobNeverRuns ==
    [][/\ \A i \in 1..Len(jobs) :
            ( /\ reply'.op = "api_cancel_job"
              /\ reply'.success
              /\ reply'.job_id = jobs[i].job_id
              /\ jobs[i].status = "pending"
              /\ jobs[i].job_id \notin Fired(fired) )
            => /\ JobRow(jobs', jobs[i].job_id).status = "cancelled"
               /\ TriggersOf(triggers', jobs[i].job_id) = {}
       /\ \A i \in 1..Len(jobs) :
            ( /\ jobs[i].status = "cancelled"
              /\ jobs[i].job_id \notin Fired(fired) )
            => jobs[i].job_id \notin Fired(fired')]_vars

\* the reply is that of a cancel request for a job whose row was in a
\* terminal status
TerminalCancelled ==
    /\ reply.op = "api_cancel_job"
    /\ HasJob(reply.pre_jobs, reply.job_id)
    /\ JobRow(reply.pre_jobs, reply.job_id).status \in Terminal

\* C17: cancelling a job whose status is completed, failed or cancelled is
\* answered with success and leaves the job's status, its completion time
\* and the job store as they were.
C17_CancelOfTerminalJobIsNoOp ==
    TerminalCancelled =>
        /\ reply.success
        /\ JobRow(jobs, reply.job_id).status
             = JobRow(reply.pre_jobs, reply.job_id).status
        /\ JobRow(jobs, reply.job_id).completed_at
             = JobRow(reply.pre_jobs, reply.job_id).completed_at
        /\ triggers = reply.pre_triggers

\* a callback has just called the fan-out, which resolved its recipients
FanOutCalled == running # NoCallback /\ resolved.made

\* a callback has just ended
CallbackEnded == reply.op = "send_scheduled_emails"

CancelWhileRunning ==
    /\ running # NoCallback
    /\ reply'.op = "api_cancel_job"
    /\ reply'.job_id = running.id

\* the ids of the recipients the run resolved, in their order
ResolvedIds(r) == [i \in 1..Len(r.users) |-> r.users[i].id]

\* C21: a cancel request for a job whose fan-out is running does not
\* interrupt the run: the request leaves the run, the audit rows and the
\* job's row as they were; a callback whose fan-out returns has processed
\* every recipient it resolved, and the status it stores is completed or
\* failed by the run's outcome, not cancelled.
C21_CancelDoesNotInterruptTheRun ==
    [][/\ CancelWhileRunning =>
            /\ ~reply'.success
            /\ run' = run /\ running' = running
            /\ logs' = logs /\ jobs' = jobs
       /\ (running # NoCallback /\ reply'.op = "send_scheduled_emails") =>
            /\ run.phase = "done" => run.processed = ResolvedIds(run)
            /\ HasJob(jobs', running.id) =>
                  JobRow(jobs', running.id).status
                    = IF run.phase = "done" THEN "completed" ELSE "failed"]_vars

\* a cancel request was refused while the second recipient of the job's
\* run was still to be processed, and the job's row is pending
C21_Witness ==
    /\ running # NoCallback
    /\ reply.op = "api_cancel_job"
    /\ reply.job_id = running.id
    /\ ~reply.success
    /\ run.phase \in {"loop", "render", "send"}
    /\ Len(run.processed) = 1 /\ Len(run.users) = 2
    /\ HasJob(jobs, running.id)
    /\ JobRow(jobs, running.id).status = "pending"

----------------------------------------------------------------------------
(* the refresh exchanges of one fan-out run *)

\* the positions of the run's exchanges that returned no token
FailedExchanges == {i \in 1..Len(run.exchanges) : ~run.exchanges[i][3]}

\* C22: within one fan-out run, a refresh exchange that failed for a user
\* is the last exchange the run makes for that user and that refresh token;
\* the recipient's iteration has ended, with a failed audit row and no
\* successful one, or the failure was the broadcast fetch and the run was
\* aborted.
C22_NoExchangeAfterAFailedOne ==
    \A i \in FailedExchanges :
        LET user_id == run.exchanges[i][1]
        IN  /\ \A j \in (i + 1)..Len(run.exchanges) :
                  ~ /\ run.exchanges[j][1] = user_id
                    /\ run.exchanges[j][2] = run.exchanges[i][2]
            /\ \/ run.aborted
               \/ /\ Count(run.processed, user_id) = 1
                  /\ \E k \in 1..Len(RunAudit) :
                        /\ RunAudit[k].user_id = user_id
                        /\ RunAudit[k].status = "failed"
                  /\ \A k \in 1..Len(RunAudit) :
                        RunAudit[k].user_id = user_id
                            => RunAudit[k].status = "failed"

\* a recipient's token was refreshed for the fetch and had expired again
\* at the send, where the exchange failed; the run went on to the next
\* recipient
C22_Witness ==
    /\ run.phase = "loop"
    /\ Len(run.exchanges) = 2
    /\ run.exchanges[1][1] = run.exchanges[2][1]
    /\ run.exchanges[1][3] /\ ~run.exchanges[2][3]
    /\ run.processed = <<run.exchanges[1][1]>>

----------------------------------------------------------------------------
(* send_email within a run *)

\* the audit rows the run's calls of send_email have written: the rows
\* lines 535 and 576 write carry the subject "Calendar Summary"
SendAudit == SelectSeq(RunAudit, LAMBDA row : row.subject # "Calendar Summary")

\* a call of send_email_to_users has resolved recipients and not returned
InRun == run.phase \in {"bfetch", "loop", "render", "send", "done"}

----------------------------------------------------------------------------
(* src/agent.py: the rendering functions, called on their own *)

\* events with a missing title, with a start that holds neither key, and
\* with a dateTime fromisoformat rejects
UntitledEvent ==
    Event(StartField("dateTime", IsoDateTime(10, 0, 30)), <<>>, <<"">>)
KeylessStartEvent == Event(StartField("neither", NoneStart), <<"tbd">>, <<>>)
UnparsableEvent ==
    Event(StartField("dateTime", Unparsable(TRUE)), <<"moved">>, <<"room 2">>)

\* the arguments of generate_ai_summary
RenderEventLists ==
    {<<>>, <<TimedEvent>>, <<TimedEvent, AllDayEvent>>,
     <<AllDayEvent, TimedEvent>>, <<AllDayEvent, StartlessEvent>>,
     <<UntitledEvent>>, <<KeylessStartEvent, TimedEvent>>,
     <<UnparsableEvent>>}
RenderNames == {<<"n1">>, <<"n2", "'s Schedule">>}
RenderDays == {1, 3, 7}

\* the arguments of the format functions: every minute of two days, the
\* days themselves, and what cannot be parsed
TimeStrings ==
    {IsoDateTime(d, h, m) : d \in {1, 10}, h \in 0..23, m \in 0..59}
    \cup {IsoDate(d) : d \in {1, 10}}
    \cup {Unparsable(b) : b \in BOOLEAN}
    \cup {NoneStart}

\* generate_ai_summary has not returned
NoSummary ==
    [raised |-> FALSE, doc |-> NoDocument, calls |-> 0, prompt |-> <<>>]

\* the arguments of the function under study, what it returned last and
\* when, and what it returned the time before
RenderingOf(op, events, user_name, fetch_days_ahead, backend, time_str) ==
    [op |-> op, events |-> events, user_name |-> user_name,
     fetch_days_ahead |-> fetch_days_ahead, backend |-> backend,
     time_str |-> time_str, returns |-> 0, at |-> 0,
     summary |-> NoSummary, before |-> <<>>, before_at |-> 0,
     time_label |-> Label(<<>>), full_label |-> Label(<<>>)]

\* generate_ai_summary is called with the arguments under study, a first
\* and a second time
CallGenerate ==
    /\ rendering.op = "generate_ai_summary"
    /\ rendering.returns < 2
    /\ rendering' =
          [rendering EXCEPT
             !.returns = @ + 1, !.at = now,
             !.before = IF rendering.returns = 0 THEN <<>>
                        ELSE <<rendering.summary>>,
             !.before_at = rendering.at,
             !.summary = generate_ai_summary(rendering.events,
                             rendering.user_name, rendering.fetch_days_ahead,
                             rendering.backend, now)]
    /\ UNCHANGED <<now, users, tokens, logs, call, run, jobs, triggers,
                   running, fired, reply, resolved, saving, env, login,
                   scheduling>>

\* format_time_12hr and format_datetime_full are called with the start
\* value under study
CallFormat ==
    /\ rendering.op = "format"
    /\ rendering.returns = 0
    /\ rendering' =
          [rendering EXCEPT
             !.returns = 1, !.at = now,
             !.time_label = format_time_12hr(rendering.time_str),
             !.full_label = format_datetime_full(rendering.time_str)]
    /\ UNCHANGED <<now, users, tokens, logs, call, run, jobs, triggers,
                   running, fired, reply, resolved, saving, env, login,
                   scheduling>>

InitRender ==
    /\ now = 0
    /\ users = InitUsers
    /\ tokens = <<>>
    /\ logs = <<>>
    /\ call = NoCall
    /\ run = IdleRun
    /\ jobs = <<>>
    /\ triggers = {}
    /\ running = NoCallback
    /\ fired = <<>>
    /\ reply = NoReply
    /\ resolved = NoResolution
    /\ saving = NoSaving
    /\ env = UnsetEnv
    /\ login = NoLogin
    /\ scheduling = NoScheduling
    /\ \/ \E events \in RenderEventLists, user_name \in RenderNames,
            days \in RenderDays, backend \in Backends :
            rendering = RenderingOf("generate_ai_summary", events, user_name,
                                    days, backend, NoneStart)
       \/ \E time_str \in TimeStrings :
            rendering = RenderingOf("format", <<>>, <<>>, 0, "absent",
                                    time_str)

NextRender ==
    \/ CallGenerate
    \/ CallFormat
    \/ Tick

SpecRender == InitRender /\ [][NextRender]_vars

----------------------------------------------------------------------------
(* the rendering functions *)

\* generate_ai_summary has returned or raised for the arguments under study
Generated == rendering.op = "generate_ai_summary" /\ rendering.returns > 0

\* the arguments lead to the fallback template: there are events, and the
\* backend is absent, raises or answers with an empty text
FallbackPath ==
    /\ rendering.events # <<>>
    /\ rendering.backend \in {"absent", "raises", "empty"}

\* C24: generate_ai_summary returns a document and never raises, for every
\* event list (events without a start, a title or a location among them),
\* every state of the backend and every window.
C24_GenerateNeverRaises ==
    Generated =>
        /\ ~rendering.summary.raised
        /\ rendering.summary.doc.variant \in {"empty", "ai", "fallback"}

\* C25: for an empty event list generate_ai_summary returns the no-events
\* document for the window it was given and does not call the backend,
\* whether or not one is configured.
C25_EmptyListSkipsTheBackend ==
    (Generated /\ rendering.events = <<>>) =>
        /\ ~rendering.summary.raised
        /\ rendering.summary.calls = 0
        /\ rendering.summary.prompt = <<>>
        /\ rendering.summary.doc.variant = "empty"
        /\ rendering.summary.doc.fetch_days = rendering.fetch_days_ahead
        /\ rendering.summary.doc.period_text
             = PeriodText(rendering.fetch_days_ahead)
        /\ rendering.summary.doc.entries = <<>>
        /\ rendering.summary.doc.body = None

\* the no-events document for a window of three days was returned while a
\* backend that answers with text is configured
C25_Witness ==
    /\ Generated
    /\ rendering.events = <<>>
    /\ rendering.backend = "text"
    /\ rendering.fetch_days_ahead = 3
    /\ rendering.summary.doc.variant = "empty"
    /\ rendering.summary.doc.period_text = "Next 3 Days"

\* C26: for a non-empty event list, when the backend is absent, raises or
\* answers with an empty text, generate_ai_summary returns the template
\* body with one entry for every event, in the order of the list; the
\* backend's text is the body only when it is not empty.
C26_FallbackListsEveryEventInOrder ==
    /\ (Generated /\ FallbackPath) =>
          /\ ~rendering.summary.raised
          /\ rendering.summary.doc.variant = "fallback"
          /\ Len(rendering.summary.doc.entries) = Len(rendering.events)
          /\ \A i \in 1..Len(rendering.events) :
                /\ rendering.summary.doc.entries[i].when
                     = format_datetime_full(StartOf(rendering.events[i]))
                /\ rendering.summary.doc.entries[i].summary
                     = GetOr(rendering.events[i].summary, "Untitled Event")
    /\ (Generated /\ rendering.summary.doc.variant = "ai") =>
          /\ rendering.backend = "text"
          /\ rendering.summary.doc.body = "text"

\* the format functions have returned for the start value under study
Formatted == rendering.op = "format" /\ rendering.returns > 0

\* a number of 1..12 or 1..31 as it is written without a leading zero
Decimal(n) == IF n < 10 THEN <<ToString(n)>> ELSE Digits(n)

\* the 12-hour clock value of hour and minute: the hour in 1..12 that is
\* congruent to hour modulo 12, without a leading zero, the minute in two
\* digits, AM before noon and PM from noon on
TwelveHourClock(hour, minute) ==
    LET h == CHOOSE h \in 1..12 : (hour - h) % 12 = 0
    IN  Decimal(h) \o <<":">> \o Digits(minute) \o <<" ">>
          \o (IF hour \in 0..11 THEN <<"A", "M">> ELSE <<"P", "M">>)

\* the last n elements of s
Suffix(s, n) == SubSeq(s, Len(s) - n + 1, Len(s))

\* C27: for a start value with a time the label is the 12-hour clock value,
\* hour in 1..12 without a leading zero and the right AM or PM; for a date
\* the label is "All Day"; for a value that cannot be parsed the label is
\* the value itself. This holds for format_time_12hr and, at the end of the
\* label, for format_datetime_full.
C27_TimeLabels ==
    Formatted =>
        LET time_str == rendering.time_str
            clock == TwelveHourClock(time_str.hour, time_str.minute)
        IN  /\ time_str.tag = "datetime" =>
                 /\ rendering.time_label = Label(clock)
                 /\ rendering.full_label.tag = "label"
                 /\ Suffix(rendering.full_label.chars, Len(clock) + 1)
                      = <<" ">> \o clock
            /\ time_str.tag = "date" =>
                 /\ rendering.time_label = Label(AllDay)
                 /\ rendering.full_label.tag = "label"
                 /\ Suffix(rendering.full_label.chars, Len(AllDay) + 2)
                      = <<"(">> \o AllDay \o <<")">>
            /\ time_str.tag \in {"text", "none"} =>
                 /\ rendering.time_label = Unchanged(time_str)
                 /\ rendering.full_label = Unchanged(time_str)

\* the call of generate_ai_summary under study was the second one for its
\* arguments, and both took the fallback path
RenderedTwice ==
    /\ rendering.op = "generate_ai_summary"
    /\ rendering.returns = 2
    /\ FallbackPath

\* the times a and b of the clock lie on one UTC date
SameUtcDate(a, b) == a \div DayLength = b \div DayLength

\* C28 as stated: two fallback renderings of the same event list, name and
\* window are the same document; nothing else enters the document.
C28_FallbackDependsOnItsArgumentsOnly ==
    RenderedTwice => rendering.before = <<rendering.summary>>

\* C28: two fallback renderings of the same event list, name and window on
\* the same UTC date are the same document (or both raise): the document
\* depends on the three arguments and on the current UTC date, which its
\* header carries.
C28_FallbackDependsOnItsArgumentsAndTheDate ==
    (RenderedTwice /\ SameUtcDate(rendering.before_at, rendering.at))
        => rendering.before = <<rendering.summary>>

\* the same two events were rendered at two times of one day, and both
\* documents list them
C28_Witness ==
    /\ RenderedTwice
    /\ rendering.before_at < rendering.at
    /\ SameUtcDate(rendering.before_at, rendering.at)
    /\ rendering.summary.doc.variant = "fallback"
    /\ Len(rendering.summary.doc.entries) = 2
    /\ rendering.before = <<rendering.summary>>

----------------------------------------------------------------------------
(* the tokens table: what every row holds *)

\* C29: in every reachable state every row of the tokens table holds an
\* access token; the refresh token may be absent. This holds after any
\* sequence of initial authentications and refreshes, a provider response
\* among them that reports success and carries no access token.
C29_EveryRowHoldsAnAccessToken ==
    \A i \in 1..Len(tokens) :
        /\ tokens[i].access_token # <<>>
        /\ ~Falsy(decrypt_token(tokens[i].access_token))

\* a refresh was answered with success and no access token, and the table
\* is as the call found it: the user's row holds the access token it had,
\* and a row without a refresh token is stored
C29_Witness ==
    /\ call.requests = 1
    /\ call.resp.kind = "ok"
    /\ call.resp.access_token = None
    /\ call.post = call.pre
    /\ get_user_tokens(tokens, call.user_id) # <<>>
    /\ get_user_tokens(tokens, call.user_id)[1].access_token = "a0"
    /\ \E i \in 1..Len(tokens) : tokens[i].refresh_token = <<>>

----------------------------------------------------------------------------
(* src/database.py: save_token, called from concurrent requests and jobs *)

\* the request threads and the scheduler's thread that can be in save_token
\* at once
Procs == {1, 2}

\* the user whose tokens the calls under study save
SavingUser == 1

\* what the callback saves in the calls under study
SaveGrants ==
    {[access_token |-> "a0", refresh_token |-> "r0",
      expires_in |-> Seconds(0)],
     [access_token |-> None, refresh_token |-> "r0",
      expires_in |-> Seconds(0)]}

\* what the token endpoint answers to the exchanges under study
SaveResponses ==
    {TokenResponse("ok", "a1", None, Seconds(MaxLifetime)),
     TokenResponse("ok", None, None, Seconds(MaxLifetime))}

\* a thread that is not in save_token
IdleSave ==
    [pc |-> "idle", origin |-> "none", user_id |-> 0, access_token |-> None,
     refresh_token |-> None, expires_in |-> AbsentSeconds, found |-> 0]

\* main.py lines 160-216: the callback of an initial authentication calls
\* save_token (line 197) with the grant
CallbackSave(p, user_id, token) ==
    /\ saving[p].pc = "idle"
    /\ get_user_by_id(users, user_id) # <<>>
    /\ saving' = [saving EXCEPT ![p] =
          [IdleSave EXCEPT !.pc = "select", !.origin = "callback",
                           !.user_id = user_id,
                           !.access_token = token.access_token,
                           !.refresh_token = token.refresh_token,
                           !.expires_in = token.expires_in]]
    /\ UNCHANGED <<now, users, tokens, logs, call, run, jobs, triggers,
                   running, fired, reply, resolved, rendering, env, login,
                   scheduling>>

\* utils.py lines 92-112 and 22-70: get_valid_token finds the token expired,
\* refresh_access_token reads the refresh token, the exchange is answered
\* with 200, and save_token is called with the old refresh token
RefreshSave(p, user_id, resp) ==
    /\ saving[p].pc = "idle"
    /\ is_token_expired(tokens, user_id, now)
    /\ get_user_tokens(tokens, user_id) # <<>>
    /\ ~Falsy(get_user_tokens(tokens, user_id)[1].refresh_token)
    /\ resp.kind = "ok"
    /\ saving' = [saving EXCEPT ![p] =
          [IdleSave EXCEPT
             !.pc = "select", !.origin = "refresh", !.user_id = user_id,
             !.access_token = resp.access_token,
             !.refresh_token =
                 get_user_tokens(tokens, user_id)[1].refresh_token,
             !.expires_in = IF resp.expires_in.tag = "absent"
                            THEN Seconds(DefaultExpiresIn)
                            ELSE resp.expires_in]]
    /\ UNCHANGED <<now, users, tokens, logs, call, run, jobs, triggers,
                   running, fired, reply, resolved, rendering, env, login,
                   scheduling>>

\* database.py line 111: Token.query.filter_by(user_id=user_id).first()
SaveSelect(p) ==
    /\ saving[p].pc = "select"
    /\ saving' = [saving EXCEPT
                    ![p].pc = "commit",
                    ![p].found = TokenIndex(tokens, saving[p].user_id)]
    /\ UNCHANGED <<now, users, tokens, logs, call, run, jobs, triggers,
                   running, fired, reply, resolved, rendering, env, login,
                   scheduling>>

\* database.py lines 112-131: the row found is updated, or a row is added
\* when none was found, and the session commits; an exception ends the call
\* in its caller's handler
SaveCommit(p) ==
    /\ saving[p].pc = "commit"
    /\ tokens' = commit_token(tokens, saving[p].found, saving[p].user_id,
                              saving[p].access_token,
                              saving[p].refresh_token, saving[p].expires_in,
                              now).tbl
    /\ saving' = [saving EXCEPT ![p] = IdleSave]
    /\ UNCHANGED <<now, users, logs, call, run, jobs, triggers,
                   running, fired, reply, resolved, rendering, env, login,
                   scheduling>>

\* nobody has authenticated, or user 1 has, with a token that expires at 0
InitSaves ==
    /\ now = 0
    /\ users = InitUsers
    /\ tokens \in {<<>>, Granted(<<<<1, "r0", Seconds(0)>>>>)}
    /\ logs = <<>>
    /\ call = NoCall
    /\ run = IdleRun
    /\ jobs = <<>>
    /\ triggers = {}
    /\ running = NoCallback
    /\ fired = <<>>
    /\ reply = NoReply
    /\ resolved = NoResolution
    /\ rendering = NoRendering
    /\ saving = [p \in Procs |-> IdleSave]
    /\ env = UnsetEnv
    /\ login = NoLogin
    /\ scheduling = NoScheduling

NextSaves ==
    \/ \E p \in Procs, token \in SaveGrants :
          CallbackSave(p, SavingUser, token)
    \/ \E p \in Procs, resp \in SaveResponses :
          RefreshSave(p, SavingUser, resp)
    \/ \E p \in Procs : SaveSelect(p)
    \/ \E p \in Procs : SaveCommit(p)
    \/ Tick

SpecSaves == InitSaves /\ [][NextSaves]_vars

\* the rows of user_id in the tokens table
TokenRowsOf(tbl, user_id) == {i \in 1..Len(tbl) : tbl[i].user_id = user_id}

\* C30: each user has at most one row in the tokens table in every
\* reachable state, also when two calls of save_token for the same user run
\* at once, and no step removes a row.
C30_OneTokenRowPerUser ==
    [][\A u \in {SavingUser} :
         /\ Cardinality(TokenRowsOf(tokens', u)) <= 1
         /\ Cardinality(TokenRowsOf(tokens', u))
              >= Cardinality(TokenRowsOf(tokens, u))]_vars

----------------------------------------------------------------------------
(* src/main.py, src/database.py: authentications under a changing *)
(* ADMIN_EMAILS *)

\* the addresses that authenticate, and the values of ADMIN_EMAILS
LoginEmails ==
    {Text("a@x", FALSE, FALSE), Text("a@x", TRUE, FALSE),
     Text("b@x", FALSE, FALSE), Text("c@x", FALSE, FALSE)}
AdminEmailLists ==
    {<<>>, <<Text("a@x", FALSE, FALSE)>>,
     <<Text("a@x", TRUE, TRUE), Text("b@x", FALSE, FALSE)>>,
     <<Text("b@x", FALSE, TRUE)>>}

\* main.py lines 160-216: the callback calls get_or_create_user for the
\* address the provider reports and saves the grant
Login(email, name) ==
    LET g == get_or_create_user(users, env.ADMIN_EMAILS, email, name, now)
        i == UserIndex(users, email)
    IN  /\ users' = g.tbl
        /\ tokens' = save_token(tokens, g.user_id, "a0", "r0",
                                Seconds(DefaultExpiresIn), now).tbl
        /\ login' = [made |-> TRUE, email |-> email,
                     entries |-> env.ADMIN_EMAILS, user_id |-> g.user_id,
                     role_before |-> IF i = 0 THEN <<>>
                                     ELSE <<users[i].role>>]
        /\ UNCHANGED <<now, logs, call, run, jobs, triggers, running, fired,
                       reply, resolved, rendering, saving, env, scheduling>>

\* the process is started again with another value of ADMIN_EMAILS
\* (database.py line 82 reads it at every call)
SetAdminEmails(entries) ==
    /\ env.ADMIN_EMAILS # entries
    /\ env' = [env EXCEPT !.ADMIN_EMAILS = entries]
    /\ login' = NoLogin
    /\ UNCHANGED <<now, users, tokens, logs, call, run, jobs, triggers,
                   running, fired, reply, resolved, rendering, saving,
                   scheduling>>

InitLogins ==
    /\ now = 0
    /\ users = <<>>
    /\ tokens = <<>>
    /\ logs = <<>>
    /\ call = NoCall
    /\ run = IdleRun
    /\ jobs = <<>>
    /\ triggers = {}
    /\ running = NoCallback
    /\ fired = <<>>
    /\ reply = NoReply
    /\ resolved = NoResolution
    /\ rendering = NoRendering
    /\ saving = NoSaving
    /\ env \in {[ADMIN_EMAILS |-> entries] : entries \in AdminEmailLists}
    /\ login = NoLogin
    /\ scheduling = NoScheduling

NextLogins ==
    \/ \E email \in LoginEmails : Login(email, email.name)
    \/ \E entries \in AdminEmailLists : SetAdminEmails(entries)

SpecLogins == InitLogins /\ [][NextLogins]_vars

\* the two texts are the same up to the case of their letters
EqualIgnoringCase(a, b) == a.name = b.name /\ a.padded = b.padded

\* the email is in the allow-list, an entry being what stands between the
\* commas without the blanks around it
Allowed(email, entries) ==
    \E i \in 1..Len(entries) :
        EqualIgnoringCase(email, [entries[i] EXCEPT !.padded = FALSE])

\* C31: after every call of get_or_create_user the user's role is admin
\* exactly when the email, compared without regard to case, is in the
\* allow-list as configured at the time of the call, whatever the role was
\* before; and exactly one row of users holds the email.
C31_RoleFollowsTheAllowList ==
    login.made =>
        /\ Cardinality({i \in 1..Len(users) :
                          users[i].email = login.email}) = 1
        /\ \A i \in 1..Len(users) :
              users[i].email = login.email =>
                  /\ users[i].id = login.user_id
                  /\ users[i].role = "admin"
                       <=> Allowed(login.email, login.entries)

\* a user who was an admin authenticates with an address in upper case
\* after the allow-list lost the address, and is a user now
C31_Witness ==
    /\ login.made
    /\ login.email.upper
    /\ login.role_before = <<"admin">>
    /\ ~Allowed(login.email, login.entries)
    /\ \E i \in 1..Len(users) :
          users[i].email = login.email /\ users[i].role = "user"

----------------------------------------------------------------------------
(* src/database.py: email_logs under the operations that write it *)

\* every row of the first table is, unchanged and at its place, in the second
KeepsRows(old, new) ==
    /\ Len(new) >= Len(old)
    /\ SubSeq(new, 1, Len(old)) = old

\* C32: audit records are append-only: no step of a fan-out, a delivery or a
\* credential operation changes a field of a row that email_logs already
\* holds, or removes the row; a step only adds rows.
C32_AuditRowsAreOnlyAdded == [][KeepsRows(logs, logs')]_vars

\* a run has added a row to a table that held rows when the run started
C32_Witness ==
    /\ InRun
    /\ run.log0 > 0
    /\ Len(logs) > run.log0

----------------------------------------------------------------------------
(* send_email_to_users: the counters and the audit rows of one run *)

\* the rows of the run with the status
RowsWithStatus(status) == SelectSeq(RunAudit, LAMBDA row : row.status = status)

----------------------------------------------------------------------------
(* schedule requests that are answered with a failure *)

\* C34: a schedule request that returns failure, whether a validation
\* failed or the record could not be stored because its job id already
\* exists, leaves the ScheduledJob records and the scheduler's registered
\* triggers exactly as they were before the call.
C34_FailedScheduleChangesNothing ==
    (ScheduleAnswered /\ ~reply.success) =>
        /\ jobs = reply.pre_jobs
        /\ triggers = reply.pre_triggers

----------------------------------------------------------------------------
(* src/main.py: the daily job beside the scheduled ones *)

\* main.py line 70
DailyJobId == "daily_summary_job"

\* agent.py line 600: the default window of run_daily_summary_agent
DailyFetchDays == 7

\* CronTrigger(hour=0, minute=0): the first midnight after t
NextMidnight(t) == (t \div DayLength + 1) * DayLength

\* main.py lines 67-73: the job of the cron trigger as the store holds it,
\* run_date being its next run time
DailyJob(t) == Trigger(DailyJobId, NextMidnight(t), <<>>, DailyFetchDays)

\* main.py lines 57-64 with agent.py lines 613-619: at midnight the
\* scheduler submits scheduled_job, which starts the fan-out to every user
\* who is not an admin; the job stays in the store with its next run time
scheduled_job(job) ==
    /\ job \in triggers
    /\ job.id = DailyJobId
    /\ job.run_date <= now
    /\ running = NoCallback
    /\ run.phase = "idle"
    /\ triggers' = add_job(triggers, DailyJob(now))
    /\ running' = job
    /\ run' = BeginRun(<<>>, 0, FALSE, DailyFetchDays)
    /\ resolved' = Resolution(<<>>, FALSE)
    /\ call' = NoCall
    /\ reply' = NoReply
    /\ UNCHANGED <<now, users, tokens, logs, jobs, fired, rendering, saving,
                   env, login, scheduling>>

\* main.py line 64: run_daily_summary_agent has returned
scheduled_job_returns ==
    /\ running.id = DailyJobId
    /\ run.phase = "done"
    /\ run' = IdleRun
    /\ running' = NoCallback
    /\ call' = NoCall
    /\ reply' = NoReply
    /\ resolved' = NoResolution
    /\ UNCHANGED <<now, users, tokens, logs, jobs, triggers, fired,
                   rendering, saving, env, login, scheduling>>

\* the ids a cancel request carries: those of the scheduled jobs, and the
\* id of any other job of the scheduler
CancelIds == JobIds \cup {DailyJobId}

\* the schedule requests of this specification
DailyRequests ==
    [datetime : {LocalTime(1)}, user_ids : {<<>>, <<2>>},
     fetch_days : {NoDays}]

\* main.py lines 55-75: the scheduler starts with the daily job
InitDaily ==
    /\ now = 0
    /\ users = InitUsers
    /\ tokens = Granted(<<<<1, "r0", Seconds(DefaultExpiresIn)>>,
                          <<2, "r0", Seconds(DefaultExpiresIn)>>>>)
    /\ logs = <<>>
    /\ call = NoCall
    /\ run = IdleRun
    /\ jobs = <<>>
    /\ triggers = {DailyJob(0)}
    /\ running = NoCallback
    /\ fired = <<>>
    /\ reply = NoReply
    /\ resolved = NoResolution
    /\ rendering = NoRendering
    /\ saving = NoSaving
    /\ env = UnsetEnv
    /\ login = NoLogin
    /\ scheduling = NoScheduling

NextDaily ==
    \/ \E data \in DailyRequests, u \in Admins :
          api_schedule_email(data, USER_TIMEZONE, u)
    \/ \E id \in CancelIds : api_cancel_job(id)
    \/ \E job \in triggers : scheduled_job(job)
    \/ scheduled_job_returns
    \/ \E job \in triggers, raises \in BOOLEAN :
          job.id # DailyJobId /\ FireJob(job, raises)
    \/ RecipientFetch(JobTokenResponse, JobCalendarResponse)
    \/ RecipientRender("text")
    \/ RecipientSend(JobTokenResponse, "200")
    \/ running.id # DailyJobId /\ FinishJob
    \/ Tick

SpecDaily == InitDaily /\ [][NextDaily]_vars

\* C35: the recurring daily trigger registered at start-up stays registered
\* after any sequence of schedule and cancel requests, whatever job id a
\* cancel request carries.
C35_DailyTriggerStaysRegistered ==
    \E job \in triggers : job.id = DailyJobId

----------------------------------------------------------------------------
(* src/main.py: a schedule request beside the scheduler's thread *)

\* the bodies posted to api_schedule_email in this specification
RaceRequests ==
    [datetime : {LocalTime(t) : t \in 0..MaxRunDate} \cup {EmptyTime},
     user_ids : {<<>>, <<2>>, <<3>>}, fetch_days : {NoDays}]

\* main.py lines 336-395: the request is validated and the trigger is
\* registered; the handler has not stored the record yet
api_schedule_email_add_job(data, user_timezone, session_user_id) ==
    LET utc == ToUtc(data.datetime, user_timezone)
        id == JobId(utc.t, session_user_id)
        refused == data.datetime.tag = "empty" \/ utc.raised
                   \/ NotLater(utc.t, now)
    IN  /\ scheduling = NoScheduling
        /\ reply' = IF refused
                    THEN [NoReply EXCEPT
                            !.op = "api_schedule_email",
                            !.message = "refused",
                            !.fetch_days = data.fetch_days,
                            !.pre_jobs = jobs, !.pre_triggers = triggers]
                    ELSE NoReply
        /\ triggers' = IF refused THEN triggers
                       ELSE add_job(triggers,
                                    Trigger(id, utc.t, data.user_ids, 0))
        /\ scheduling' = IF refused THEN NoScheduling
                         ELSE <<[job_id |-> id, run_date |-> utc.t,
                                 user_ids |-> data.user_ids,
                                 fetch_days |-> data.fetch_days,
                                 created_by |-> session_user_id,
                                 pre_jobs |-> jobs,
                                 pre_triggers |-> triggers]>>
        /\ call' = NoCall
        /\ resolved' = NoResolution
        /\ UNCHANGED <<now, users, tokens, logs, run, jobs, running, fired,
                       rendering, saving, env, login>>

\* main.py lines 397-413: the record is stored and the request is answered
api_schedule_email_create ==
    /\ scheduling # NoScheduling
    /\ LET s == scheduling[1]
           created == create_scheduled_job(jobs, s.job_id, s.run_date,
                                           s.user_ids, s.created_by)
       IN  /\ jobs' = created.tbl
           /\ reply' = [op |-> "api_schedule_email",
                        success |-> ~created.raised,
                        message |-> IF created.raised THEN "IntegrityError"
                                    ELSE "Email scheduled",
                        job_id |-> s.job_id, run_date |-> <<s.run_date>>,
                        user_ids |-> s.user_ids,
                        fetch_days |-> s.fetch_days,
                        pre_jobs |-> s.pre_jobs,
                        pre_triggers |-> s.pre_triggers]
    /\ scheduling' = NoScheduling
    /\ call' = NoCall
    /\ resolved' = NoResolution
    /\ UNCHANGED <<now, users, tokens, logs, run, triggers, running, fired,
                   rendering, saving, env, login>>

InitRace == InitJobs

\* the steps of the scheduler's thread and of its callback
SchedulerStep ==
    \/ \E job \in triggers, raises \in BOOLEAN : FireJob(job, raises)
    \/ RecipientFetch(JobTokenResponse, JobCalendarResponse)
    \/ RecipientRender("text")
    \/ RecipientSend(JobTokenResponse, "200")
    \/ FinishJob

NextRace ==
    \/ \E data \in RaceRequests, u \in Admins :
          api_schedule_email_add_job(data, USER_TIMEZONE, u)
    \/ api_schedule_email_create
    \/ SchedulerStep
    \/ api_clear_completed_jobs
    \/ Tick

\* the request thread finishes its handler, the scheduler's thread runs the
\* jobs that are due and their callbacks to the end, and time passes
SpecRace ==
    /\ InitRace
    /\ [][NextRace]_vars
    /\ WF_vars(api_schedule_email_create)
    /\ WF_vars(SchedulerStep)
    /\ WF_vars(Tick)

\* the trigger of the job id has fired and its callback has finished
FanOutRan(id) ==
    /\ \E k \in 1..Len(fired) : fired[k] = id
    /\ running.id # id

\* a record whose status is pending although its fan-out ran
PendingAfterItsRun ==
    \E i \in 1..Len(jobs) :
        /\ jobs[i].status = "pending"
        /\ FanOutRan(jobs[i].job_id)

\* C36: every ScheduledJob record whose trigger has fired gets a terminal
\* status once its callback has finished: no record stays pending for ever
\* after its fan-out ran, however the schedule request, which registers the
\* trigger before it stores the record, is interleaved with the firing.
C36_NoRecordStaysPendingAfterItsRun ==
    PendingAfterItsRun ~> ~PendingAfterItsRun

----------------------------------------------------------------------------
(* get_valid_token: what is returned and what is stored *)

\* what get_user_tokens reads for the call's user right after the call
StoredAfter == get_user_tokens(call.post, call.user_id)

\* C37: whenever get_valid_token returns a credential, after a refresh or
\* without one, the access token and the refresh token it returns are the
\* access token and the refresh token stored for the user right after the
\* call.
C37_ReturnedTokensAreTheStoredOnes ==
    (Called /\ Returned) =>
        /\ StoredAfter # <<>>
        /\ call.ret[1].access_token = StoredAfter[1].access_token
        /\ call.ret[1].refresh_token = StoredAfter[1].refresh_token

\* a call that refreshed returned a credential, while the token endpoint
\* had sent another refresh token along
C37_Witness ==
    /\ Called /\ Returned
    /\ call.requests = 1
    /\ call.post # call.pre
    /\ call.resp.refresh_token # None
    /\ call.resp.refresh_token # call.ret[1].refresh_token

----------------------------------------------------------------------------
(* send_email_to_users: the window of each recipient *)

\* the run sends each recipient their own calendar
Personalized == run.broadcast_from_user_id = 0

\* the window the run owes the user: the explicit one, else the stored
\* preference, else seven days
WindowOwed(user_id) ==
    LET user == get_user_by_id(users, user_id)[1]
    IN  IF run.fetch_days_ahead # 0 THEN run.fetch_days_ahead
        ELSE IF user.fetch_days # 0 THEN user.fetch_days
        ELSE 7

\* C38: in personalized mode, with an explicit window every recipient is
\* fetched, rendered and logged with that window whatever the stored
\* preference is; without one, each recipient is fetched, rendered and
\* logged with the stored fetch_days, or with 7 when none is stored. The
\* window a document was rendered with is the one its header names.
C38_PersonalizedWindow ==
    (InRun /\ Personalized) =>
        /\ \A k \in 1..Len(run.fetched) :
              run.windows[k] = WindowOwed(run.fetched[k][1])
        /\ run.phase = "send" =>
              run.summary.period_text = PeriodText(WindowOwed(CurrentUser.id))
        /\ \A i \in 1..Len(RunAudit) :
              RunAudit[i].fetch_days = WindowOwed(RunAudit[i].user_id)

\* a run without an explicit window has logged a delivery for the user
\* without a preference and is about to send to the user whose preference
\* is three days
C38_Witness ==
    /\ InRun /\ Personalized
    /\ run.fetch_days_ahead = 0
    /\ \E i \in 1..Len(RunAudit) :
          /\ RunAudit[i].status = "success"
          /\ RunAudit[i].fetch_days = 7
    /\ run.phase = "send"
    /\ CurrentUser.fetch_days = 3
    /\ run.summary.period_text = "Next 3 Days"

\* the run broadcasts the events of one user, which it has fetched
Broadcasting ==
    /\ run.broadcast_from_user_id # 0
    /\ run.broadcast_events # <<>>

\* C39: in broadcast mode, for every recipient the window the rendered
\* document shows and the window stored in the recipient's audit row are
\* the window the broadcast events were fetched with, whether or not the
\* run was given an explicit window.
C39_BroadcastWindow ==
    (InRun /\ Broadcasting) =>
        /\ run.phase = "send" =>
              run.summary.period_text = PeriodText(run.windows[1])
        /\ \A i \in 1..Len(RunAudit) :
              RunAudit[i].fetch_days = run.windows[1]

====
